---- MODULE Spec2Model ----
(***************************************************************************)
(* Positive-prompt extraction from PNG metadata (comfyui_prompt_extractor). *)
(*                                                                         *)
(* Python strings are sequences of one-character strings, so that lower(), *)
(* strip(), slicing, "in" and startswith() are computed, not assumed.      *)
(* Decoded JSON values are tagged records (str / list / num / null).       *)
(***************************************************************************)
EXTENDS Integers, Sequences, FiniteSets, TLC

(***************************************************************************)
(* Bounds of the model.                                                    *)
(***************************************************************************)
MaxNodes == 2
MaxFiles == 2
MaxLines == 3
MaxMembers == 2

(***************************************************************************)
(* Python str operations.                                                  *)
(***************************************************************************)
UpperLetters == <<"A","B","C","D","E","F","G","H","I","J","K","L","M",
                  "N","O","P","Q","R","S","T","U","V","W","X","Y","Z">>

LowerLetters == <<"a","b","c","d","e","f","g","h","i","j","k","l","m",
                  "n","o","p","q","r","s","t","u","v","w","x","y","z">>

Whitespace == {" ", "\n", "\t", "\r"}

LowerChar(c) ==
    IF \E i \in 1..26 : UpperLetters[i] = c
    THEN LowerLetters[CHOOSE i \in 1..26 : UpperLetters[i] = c]
    ELSE c

\* s.lower()
Lower(s) == [i \in 1..Len(s) |-> LowerChar(s[i])]

\* s[:n]
Prefix(s, n) == SubSeq(s, 1, IF Len(s) < n THEN Len(s) ELSE n)

\* sub in s
Contains(sub, s) ==
    \E i \in 0..(Len(s) - Len(sub)) : SubSeq(s, i + 1, i + Len(sub)) = sub

\* s.startswith(pre)
StartsWith(s, pre) ==
    /\ Len(pre) <= Len(s)
    /\ SubSeq(s, 1, Len(pre)) = pre

IsBlank(s) == \A i \in 1..Len(s) : s[i] \in Whitespace

\* s.strip()
Strip(s) ==
    IF IsBlank(s) THEN << >>
    ELSE LET first == CHOOSE i \in 1..Len(s) :
                          /\ s[i] \notin Whitespace
                          /\ \A j \in 1..(i - 1) : s[j] \in Whitespace
             last  == CHOOSE i \in 1..Len(s) :
                          /\ s[i] \notin Whitespace
                          /\ \A j \in (i + 1)..Len(s) : s[j] \in Whitespace
         IN  SubSeq(s, first, last)

RECURSIVE JoinLines(_)
\* '\n'.join(items)
JoinLines(items) ==
    IF items = << >> THEN << >>
    ELSE IF Len(items) = 1 THEN items[1]
    ELSE items[1] \o <<"\n">> \o JoinLines(Tail(items))

Digits == <<"0","1","2","3","4","5","6","7","8","9">>

RECURSIVE StrNat(_)
\* str(n) of a non-negative int
StrNat(n) ==
    IF n < 10 THEN <<Digits[n + 1]>>
    ELSE StrNat(n \div 10) \o <<Digits[(n % 10) + 1]>>

(***************************************************************************)
(* String literals of the source.                                          *)
(***************************************************************************)
s_negative == <<"n","e","g","a","t","i","v","e">>
s_positive == <<"p","o","s","i","t","i","v","e">>
s_pos == <<"p","o","s">>
s_neg == <<"n","e","g">>
s_untitled == <<"u","n","t","i","t","l","e","d">>
s_cliptext == <<"c","l","i","p","t","e","x","t">>
s_CLIPTextEncode == <<"C","L","I","P","T","e","x","t","E","n","c","o","d","e">>
s_Untitled == <<"U","n","t","i","t","l","e","d">>
s_Node == <<"N","o","d","e"," ">>

\* the slice width of  prompt_text.lower()[:50]
NegativeWindow == 50

(***************************************************************************)
(* Decoded JSON values: what json.loads gives for widgets_values[0] and    *)
(* for inputs["text"].  A list holds strings.                              *)
(***************************************************************************)
JStr(s) == [kind |-> "str", s |-> s, items |-> << >>, n |-> 0]
JList(items) == [kind |-> "list", s |-> << >>, items |-> items, n |-> 0]
JNum(n) == [kind |-> "num", s |-> << >>, items |-> << >>, n |-> n]
JNull == [kind |-> "null", s |-> << >>, items |-> << >>, n |-> 0]

\* node ids: workflow ids are JSON ints (or missing: None), prompt keys are
\* JSON object keys (str); Python never finds 1 == "1"
IdInt(n) == [t |-> "int", n |-> n, s |-> << >>]
IdStr(s) == [t |-> "str", n |-> 0, s |-> s]
IdNone == [t |-> "none", n |-> 0, s |-> << >>]

\* a workflow node object: has_title tells whether the "title" key exists;
\* snr is properties["Node name for S&R"] (<< >> when missing);
\* widgets_values is << >> when the key is missing
Node(id, type, snr, has_title, title, widgets_values) ==
    [id |-> id, type |-> type, snr |-> snr, has_title |-> has_title,
     title |-> title, widgets_values |-> widgets_values]

(***************************************************************************)
(* WorkflowGraphExtractor, unified UI:                                     *)
(* ComfyUIPromptExtractorUI.extract_positive_from_workflow                 *)
(***************************************************************************)
\* the title not lower-cased
title_as_written(node) == IF node.has_title THEN node.title ELSE << >>

\* node.get('title', '').lower()
title_lower(node) == IF node.has_title THEN Lower(node.title) ELSE << >>

\* node.get('title', 'Untitled')
record_title(node) == IF node.has_title THEN node.title ELSE s_Untitled

\* the first test alone: node_type == 'CLIPTextEncode'
is_text_encode_by_type_only(node) == node.type = s_CLIPTextEncode

\* the test that selects CLIPTextEncode nodes
is_text_encode(node) ==
    \/ node.type = s_CLIPTextEncode
    \/ Contains(s_cliptext, Lower(node.type))
    \/ node.snr = s_CLIPTextEncode

\* the duplicate check left out
never_processed(node_id, processed_nodes) == FALSE

\* if node_id in processed_nodes: continue
already_processed(node_id, processed_nodes) == node_id \in processed_nodes

\* the slice one character short: [:49]
untitled_text_ok_short_slice(text) ==
    /\ Strip(text) # << >>
    /\ ~Contains(s_negative, Prefix(Lower(text), NegativeWindow - 1))

\* prompt_text.strip() != '' and 'negative' not in prompt_text.lower()[:50]
untitled_text_ok(text) ==
    /\ Strip(text) # << >>
    /\ ~Contains(s_negative, Prefix(Lower(text), NegativeWindow))

\* the title tests left out: only untitled nodes can be positive
is_positive_untitled_only(title, prompt_text) ==
    \/ (title = << >> /\ prompt_text.kind = "str" /\ untitled_text_ok(prompt_text.s))
    \/ (title = s_untitled /\ prompt_text.kind = "str" /\ untitled_text_ok(prompt_text.s))

is_positive(title, prompt_text) ==
    \/ Contains(s_positive, title)
    \/ Contains(s_pos, title)
    \/ (title = << >> /\ prompt_text.kind = "str" /\ untitled_text_ok(prompt_text.s))
    \/ (title = s_untitled /\ prompt_text.kind = "str" /\ untitled_text_ok(prompt_text.s))

\* the title tests left out: only the text can make a node negative
is_negative_text_only(title, prompt_text) ==
    /\ prompt_text.kind = "str"
    /\ \/ Strip(prompt_text.s) = << >>
       \/ StartsWith(Strip(Lower(prompt_text.s)), s_negative)

is_negative(title, prompt_text) ==
    \/ Contains(s_negative, title)
    \/ Contains(s_neg, title)
    \/ /\ prompt_text.kind = "str"
       /\ \/ Strip(prompt_text.s) = << >>
          \/ StartsWith(Strip(Lower(prompt_text.s)), s_negative)

\* if isinstance(prompt_text, list): prompt_text = '\n'.join(str(x) for x in prompt_text)
join_if_list(prompt_text) ==
    IF prompt_text.kind = "list" THEN JStr(JoinLines(prompt_text.items))
    ELSE prompt_text

\* isinstance(prompt_text, (str, int, float))
is_str_or_number(prompt_text) == prompt_text.kind \in {"str", "num"}

\* str(prompt_text)
to_text(prompt_text) ==
    IF prompt_text.kind = "num" THEN StrNat(prompt_text.n) ELSE prompt_text.s

\* the state of one call: the list being built, the set passed in by
\* reference, the positions of the nodes appended so far, and whether an
\* exception left the loop
WfAcc(processed_nodes) ==
    [positive_prompts |-> << >>, processed_nodes |-> processed_nodes,
     emitted |-> << >>, raised |-> FALSE]

\* one iteration of  for node in nodes  (i is the position of node)
workflow_node_step(node, i, acc) ==
    LET title == title_lower(node)
        widgets_values == node.widgets_values
    IN  IF already_processed(node.id, acc.processed_nodes) THEN acc
        ELSE IF ~is_text_encode(node) THEN acc
        ELSE IF widgets_values = << >> THEN acc
        ELSE LET raw == widgets_values[1]
                 pos == is_positive(title, raw)
                 neg == is_negative(title, raw)
                 prompt_text == join_if_list(raw)
             IN  IF pos /\ ~neg /\ is_str_or_number(prompt_text)
                 THEN [acc EXCEPT
                        !.positive_prompts = Append(@,
                            [text |-> to_text(prompt_text),
                             node_id |-> node.id,
                             node_type |-> node.type,
                             title |-> record_title(node),
                             source |-> "workflow"]),
                        !.processed_nodes = @ \cup {node.id},
                        !.emitted = Append(@, i)]
                 ELSE acc

RECURSIVE workflow_loop(_, _, _)
workflow_loop(nodes, i, acc) ==
    IF i > Len(nodes) THEN acc
    ELSE workflow_loop(nodes, i + 1, workflow_node_step(nodes[i], i, acc))

\* q[::-1]
Reversed(q) == [i \in 1..Len(q) |-> q[Len(q) + 1 - i]]

\* the records handed back last first
extract_positive_from_workflow_reversed(workflow_data, processed_nodes) ==
    LET out == workflow_loop(workflow_data, 1, WfAcc(processed_nodes))
    IN  [out EXCEPT !.positive_prompts = Reversed(@), !.emitted = Reversed(@)]

\* workflow_data is the sequence workflow_data.get('nodes', [])
extract_positive_from_workflow(workflow_data, processed_nodes) ==
    workflow_loop(workflow_data, 1, WfAcc(processed_nodes))

(***************************************************************************)
(* WorkflowGraphExtractor, command line (and drop UI, same code):          *)
(* comfyprompt_extractor.extract_positive_from_workflow                    *)
(* Python's or/and short-circuit: prompt_text.strip() on a value that is   *)
(* not a str raises AttributeError when it is reached.                     *)
(***************************************************************************)
Val(b) == [raised |-> FALSE, value |-> b]
Raise == [raised |-> TRUE, value |-> FALSE]

cli_is_positive(title, prompt_text) ==
    IF Contains(s_positive, title) \/ Contains(s_pos, title) THEN Val(TRUE)
    ELSE IF title = << >> \/ title = s_untitled
         THEN IF prompt_text.kind # "str" THEN Raise
              ELSE Val(untitled_text_ok(prompt_text.s))
         ELSE Val(FALSE)

\* the tests on the text left out: a negative title only
cli_is_negative_by_title(title, prompt_text) ==
    Val(Contains(s_negative, title) \/ Contains(s_neg, title))

cli_is_negative(title, prompt_text) ==
    IF Contains(s_negative, title) \/ Contains(s_neg, title) THEN Val(TRUE)
    ELSE IF prompt_text.kind # "str" THEN Raise
         ELSE Val(\/ Strip(prompt_text.s) = << >>
                  \/ StartsWith(Strip(Lower(prompt_text.s)), s_negative))

cli_workflow_node_step(node, i, acc) ==
    LET title == title_lower(node)
        widgets_values == node.widgets_values
    IN  IF already_processed(node.id, acc.processed_nodes) THEN acc
        ELSE IF ~is_text_encode(node) THEN acc
        ELSE IF widgets_values = << >> THEN acc
        ELSE LET prompt_text == widgets_values[1]
                 pos == cli_is_positive(title, prompt_text)
                 neg == cli_is_negative(title, prompt_text)
             IN  IF pos.raised \/ neg.raised
                 THEN [acc EXCEPT !.raised = TRUE]
                 ELSE IF pos.value /\ ~neg.value
                 THEN [acc EXCEPT
                        !.positive_prompts = Append(@,
                            [text |-> prompt_text.s,
                             node_id |-> node.id,
                             node_type |-> node.type,
                             title |-> record_title(node),
                             source |-> "workflow"]),
                        !.processed_nodes = @ \cup {node.id},
                        !.emitted = Append(@, i)]
                 ELSE acc

RECURSIVE cli_workflow_loop(_, _, _)
cli_workflow_loop(nodes, i, acc) ==
    IF i > Len(nodes) \/ acc.raised THEN acc
    ELSE cli_workflow_loop(nodes, i + 1, cli_workflow_node_step(nodes[i], i, acc))

cli_extract_positive_from_workflow(workflow_data, processed_nodes) ==
    cli_workflow_loop(workflow_data, 1, WfAcc(processed_nodes))

(***************************************************************************)
(* PromptGraphExtractor.  prompt_data is the sequence of the (key, value)  *)
(* pairs of prompt_data.items(); keys of a JSON object are distinct.       *)
(***************************************************************************)
PromptItem(key, is_dict, class_type, has_text, text, has_prompt, prompt) ==
    [key |-> key, is_dict |-> is_dict, class_type |-> class_type,
     has_text |-> has_text, text |-> text,
     has_prompt |-> has_prompt, prompt |-> prompt]

\* text_content after  if 'text' in inputs ... elif 'prompt' in inputs ...
\* (default is the value the variable holds when neither key exists)
pick_text_content(item, default) ==
    IF item.has_text THEN item.text
    ELSE IF item.has_prompt THEN item.prompt
    ELSE default

\* the "Normalize to string" block of the unified UI
normalize_text_content(text_content) ==
    IF text_content.kind = "list" THEN JoinLines(text_content.items)
    ELSE IF text_content.kind = "num" THEN StrNat(text_content.n)
    ELSE text_content.s

\* 'negative' in text_content.lower()[:50]
prompt_is_negative(text) ==
    Contains(s_negative, Prefix(Lower(text), NegativeWindow))

prompt_item_step(item, i, acc) ==
    IF ~item.is_dict THEN acc
    ELSE IF already_processed(IdStr(item.key), acc.processed_nodes) THEN acc
    ELSE IF item.class_type # s_CLIPTextEncode THEN acc
    ELSE LET text_content == pick_text_content(item, JNull)
         IN  IF text_content.kind = "null" THEN acc
             ELSE LET text == normalize_text_content(text_content)
                  IN  IF Strip(text) # << >> /\ ~prompt_is_negative(text)
                      THEN [acc EXCEPT
                             !.positive_prompts = Append(@,
                                 [text |-> text,
                                  node_id |-> IdStr(item.key),
                                  node_type |-> item.class_type,
                                  title |-> s_Node \o item.key,
                                  source |-> "prompt_data"]),
                             !.processed_nodes = @ \cup {IdStr(item.key)},
                             !.emitted = Append(@, i)]
                      ELSE acc

RECURSIVE prompt_loop(_, _, _)
prompt_loop(items, i, acc) ==
    IF i > Len(items) THEN acc
    ELSE prompt_loop(items, i + 1, prompt_item_step(items[i], i, acc))

extract_positive_from_prompt_data(prompt_data, processed_nodes) ==
    prompt_loop(prompt_data, 1, WfAcc(processed_nodes))

\* bool(x) of a decoded JSON value
truthy(x) ==
    CASE x.kind = "str" -> x.s # << >>
      [] x.kind = "list" -> x.items # << >>
      [] x.kind = "num" -> x.n # 0
      [] OTHER -> FALSE

\* command line and drop UI:  if text_content and text_content.strip():
\* strip() is reached, and raises, for a truthy value that is not a str
cli_prompt_item_step(item, i, acc) ==
    IF ~item.is_dict THEN acc
    ELSE IF already_processed(IdStr(item.key), acc.processed_nodes) THEN acc
    ELSE IF item.class_type # s_CLIPTextEncode THEN acc
    ELSE LET text_content == pick_text_content(item, JStr(<< >>))
         IN  IF ~truthy(text_content) THEN acc
             ELSE IF text_content.kind # "str" THEN [acc EXCEPT !.raised = TRUE]
             ELSE IF Strip(text_content.s) = << >> THEN acc
             ELSE IF Strip(text_content.s) = << >> \/ prompt_is_negative(text_content.s)
                  THEN acc
                  ELSE [acc EXCEPT
                         !.positive_prompts = Append(@,
                             [text |-> text_content.s,
                              node_id |-> IdStr(item.key),
                              node_type |-> item.class_type,
                              title |-> s_Node \o item.key,
                              source |-> "prompt_data"]),
                         !.processed_nodes = @ \cup {IdStr(item.key)},
                         !.emitted = Append(@, i)]

RECURSIVE cli_prompt_loop(_, _, _)
cli_prompt_loop(items, i, acc) ==
    IF i > Len(items) \/ acc.raised THEN acc
    ELSE cli_prompt_loop(items, i + 1, cli_prompt_item_step(items[i], i, acc))

cli_extract_positive_from_prompt_data(prompt_data, processed_nodes) ==
    cli_prompt_loop(prompt_data, 1, WfAcc(processed_nodes))

(***************************************************************************)
(* Inputs.  Texts, titles and node types the extractors are run on.        *)
(***************************************************************************)
t_a_cat == <<"a"," ","c","a","t">>
t_a_dog == <<"a"," ","d","o","g">>
t_blank == <<" "," ">>
t_negative_x == <<"n","e","g","a","t","i","v","e"," ","x">>
t_Negative_y == <<" ","N","e","g","a","t","i","v","e"," ","y">>
t_no_negative == <<"n","o"," ","n","e","g","a","t","i","v","e">>
\* "negative" ends at character 50: inside the slice [:50]
t_negative_at_43 == [i \in 1..42 |-> "x"] \o s_negative
\* "negative" starts at character 46: cut by the slice [:50]
t_negative_at_46 == [i \in 1..45 |-> "x"] \o s_negative

s_Positive == <<"P","o","s","i","t","i","v","e">>
s_Negative == <<"N","e","g","a","t","i","v","e">>
s_Pos_Neg == <<"P","o","s"," ","N","e","g">>
s_Prompt == <<"P","r","o","m","p","t">>
s_KSampler == <<"K","S","a","m","p","l","e","r">>
s_CLIPTextEncodeSDXL == <<"C","L","I","P","T","e","x","t","E","n","c","o","d","e","S","D","X","L">>

\* (has_title, title)
Titles ==
    { <<FALSE, << >> >>, <<TRUE, << >> >>, <<TRUE, s_Positive>>,
      <<TRUE, s_Negative>>, <<TRUE, s_Untitled>>, <<TRUE, s_Pos_Neg>>,
      <<TRUE, s_Prompt>> }

\* widgets_values
WidgetValues ==
    { << >>,
      <<JStr(t_a_cat)>>, <<JStr(<< >>)>>, <<JStr(t_blank)>>,
      <<JStr(t_negative_x)>>, <<JStr(t_Negative_y)>>, <<JStr(t_no_negative)>>,
      <<JStr(t_negative_at_43)>>, <<JStr(t_negative_at_46)>>,
      <<JList(<< >>)>>, <<JList(<<t_a_cat>>)>>, <<JList(<<t_blank>>)>>,
      <<JList(<<t_negative_x>>)>>, <<JNum(7)>>, <<JNull>> }

\* (type, properties["Node name for S&R"])
NodeTypes ==
    { <<s_CLIPTextEncode, << >> >>, <<s_KSampler, << >> >>,
      <<s_CLIPTextEncodeSDXL, << >> >>, <<s_KSampler, s_CLIPTextEncode>> }

\* every combination, as a node of its own
SingleNodes ==
    { Node(IdInt(1), ty[1], ty[2], ti[1], ti[2], wv) :
        ty \in NodeTypes, ti \in Titles, wv \in WidgetValues }

Clip(id, has_title, title, value) ==
    Node(id, s_CLIPTextEncode, << >>, has_title, title, <<value>>)

\* nodes that are combined into longer workflows: equal ids, missing ids,
\* and every outcome of the classification
NodePool ==
    { Clip(IdInt(1), TRUE, s_Positive, JStr(t_a_cat)),
      Clip(IdInt(2), TRUE, s_Positive, JStr(t_a_dog)),
      Clip(IdInt(1), TRUE, s_Positive, JStr(t_a_dog)),
      Clip(IdInt(1), TRUE, << >>, JStr(t_a_cat)),
      Clip(IdInt(2), TRUE, s_Untitled, JStr(t_a_cat)),
      Clip(IdInt(1), TRUE, s_Negative, JStr(t_a_cat)),
      Clip(IdInt(2), FALSE, << >>, JStr(t_no_negative)),
      Clip(IdInt(1), TRUE, s_Positive, JStr(t_negative_x)),
      Clip(IdInt(2), TRUE, s_Positive, JStr(t_blank)),
      Clip(IdInt(1), TRUE, s_Positive, JList(<< >>)),
      Clip(IdInt(2), TRUE, s_Positive, JList(<<t_a_cat>>)),
      Clip(IdInt(2), TRUE, << >>, JList(<<t_a_cat>>)),
      Clip(IdInt(2), TRUE, s_Positive, JNum(7)),
      Clip(IdInt(2), TRUE, s_Pos_Neg, JStr(t_a_cat)),
      Clip(IdNone, TRUE, s_Positive, JStr(t_a_cat)),
      Clip(IdNone, FALSE, << >>, JStr(t_a_dog)),
      Node(IdInt(1), s_KSampler, << >>, TRUE, s_Positive, <<JStr(t_a_cat)>>),
      Node(IdInt(2), s_KSampler, s_CLIPTextEncode, TRUE, s_Positive, <<JStr(t_a_cat)>>),
      Node(IdInt(1), s_CLIPTextEncode, << >>, TRUE, s_Positive, << >>) }

RECURSIVE SeqsUpTo(_, _)
\* the sequences over S of length at most n
SeqsUpTo(S, n) ==
    IF n = 0 THEN { << >> }
    ELSE LET shorter == SeqsUpTo(S, n - 1)
         IN  shorter \cup { Append(q, x) : q \in shorter, x \in S }

\* the values of workflow_data.get('nodes', [])
Workflows == SeqsUpTo(NodePool, MaxNodes) \cup { <<n>> : n \in SingleNodes }

(***************************************************************************)
(* More Python str operations, used by the parameters extractors.          *)
(***************************************************************************)
\* the characters str.splitlines() breaks a line at
LineBreaks == {"\n", "\r"}

\* c in s, for one character
HasChar(c, s) == \E i \in 1..Len(s) : s[i] = c

\* s.rstrip()
RStrip(s) ==
    IF IsBlank(s) THEN << >>
    ELSE LET last == CHOOSE i \in 1..Len(s) :
                         /\ s[i] \notin Whitespace
                         /\ \A j \in (i + 1)..Len(s) : s[j] \in Whitespace
         IN  SubSeq(s, 1, last)

RECURSIVE Split(_, _)
\* s.split(sep), sep one character: always at least one piece
Split(s, sep) ==
    IF ~HasChar(sep, s) THEN <<s>>
    ELSE LET i == CHOOSE i \in 1..Len(s) :
                      s[i] = sep /\ \A j \in 1..(i - 1) : s[j] # sep
         IN  <<SubSeq(s, 1, i - 1)>> \o Split(SubSeq(s, i + 1, Len(s)), sep)

\* s.split(':', 1)[1]
AfterFirstColon(s) ==
    LET i == CHOOSE i \in 1..Len(s) :
                 s[i] = ":" /\ \A j \in 1..(i - 1) : s[j] # ":"
    IN  SubSeq(s, i + 1, Len(s))

RECURSIVE SplitLines(_)
\* s.splitlines(): "\r\n" is one break, and a break at the end of s opens
\* no last empty line
SplitLines(s) ==
    IF s = << >> THEN << >>
    ELSE IF \A i \in 1..Len(s) : s[i] \notin LineBreaks THEN <<s>>
    ELSE LET i == CHOOSE i \in 1..Len(s) :
                      s[i] \in LineBreaks /\ \A j \in 1..(i - 1) : s[j] \notin LineBreaks
             next == IF s[i] = "\r" /\ i < Len(s) /\ s[i + 1] = "\n"
                     THEN i + 2 ELSE i + 1
         IN  <<SubSeq(s, 1, i - 1)>> \o SplitLines(SubSeq(s, next, Len(s)))

RECURSIVE JoinWith(_, _)
\* sep.join(items)
JoinWith(items, sep) ==
    IF items = << >> THEN << >>
    ELSE IF Len(items) = 1 THEN items[1]
    ELSE items[1] \o sep \o JoinWith(Tail(items), sep)

\* items[k:], k counted from 0
DropFirst(items, k) == SubSeq(items, k + 1, Len(items))

(***************************************************************************)
(* ParametersBlockExtractor: the value of metadata['parameters'].          *)
(* A value is the text of the chunk together with what json.loads makes of *)
(* that text: a JSONDecodeError, an object (its members in the order of    *)
(* the text), or some other JSON value.                                    *)
(***************************************************************************)
NotJson == [kind |-> "malformed", members |-> << >>]
JsonOther == [kind |-> "other", members |-> << >>]
JsonObject(members) == [kind |-> "dict", members |-> members]

Member(key, value) == [key |-> key, value |-> value]

\* 'parameters' in metadata, with its text
ParametersData(text, json) == [present |-> TRUE, text |-> text, json |-> json]

\* 'parameters' not in metadata
NoParameters == [present |-> FALSE, text |-> << >>, json |-> NotJson]

\* a JSON array of scalars (strings, numbers, nulls)
PList(items) == [kind |-> "list", s |-> << >>, items |-> items, n |-> 0]

\* a Python value returned by an extractor: None is JNull
PyNone == JNull

s_None == <<"N","o","n","e">>

\* str(v) of a decoded JSON scalar
py_str(v) ==
    IF v.kind = "num" THEN StrNat(v.n)
    ELSE IF v.kind = "null" THEN s_None
    ELSE v.s

\* [str(v) for v in value]
StrEach(items) == [i \in 1..Len(items) |-> py_str(items[i])]

\* key in parsed_params
key_in(key, members) == \E i \in 1..Len(members) : members[i].key = key

\* parsed_params[key]: of two members with one key, json.loads keeps the last
dict_get(members, key) ==
    LET i == CHOOSE i \in 1..Len(members) :
                 /\ members[i].key = key
                 /\ \A j \in (i + 1)..Len(members) : members[j].key # key
    IN  members[i].value

k_Positive_prompt == <<"P","o","s","i","t","i","v","e"," ","p","r","o","m","p","t">>
k_positive_prompt == <<"p","o","s","i","t","i","v","e"," ","p","r","o","m","p","t">>
k_Positive_Prompt == <<"P","o","s","i","t","i","v","e"," ","P","r","o","m","p","t">>
k_positive__prompt == <<"p","o","s","i","t","i","v","e","_","p","r","o","m","p","t">>
k_prompt == <<"p","r","o","m","p","t">>
k_Prompt == <<"P","r","o","m","p","t">>

\* the list read from its end
possible_keys_reversed ==
    << k_Prompt, k_prompt, k_positive__prompt, k_Positive_Prompt,
       k_positive_prompt, k_Positive_prompt >>

possible_keys ==
    << k_Positive_prompt, k_positive_prompt, k_Positive_Prompt,
       k_positive__prompt, k_prompt, k_Prompt >>

\* what a return statement, or the lack of one, leaves: returned tells
\* whether the function is over, raised whether an exception is on its way out
Return(value) == [returned |-> TRUE, raised |-> FALSE, value |-> value]
FallThrough == [returned |-> FALSE, raised |-> FALSE, value |-> PyNone]
RaiseOut == [returned |-> TRUE, raised |-> TRUE, value |-> PyNone]

RECURSIVE first_key_from(_, _, _)
\* for key in possible_keys: if key in parsed_params: ...
\* (<< >> when the loop ends without a key found)
first_key_from(keys, i, members) ==
    IF i > Len(keys) THEN << >>
    ELSE IF key_in(keys[i], members) THEN keys[i]
    ELSE first_key_from(keys, i + 1, members)

\* the list handed back as it is
strict_value_unjoined(value) == value

\* if isinstance(value, list): return '\n'.join(str(v) for v in value)
\* return str(value) if value is not None else None
strict_value(value) ==
    IF value.kind = "list" THEN JStr(JoinLines(StrEach(value.items)))
    ELSE IF value.kind = "null" THEN PyNone
    ELSE JStr(py_str(value))

\* json.JSONDecodeError not caught
json_loads_uncaught(parameters_data) ==
    IF parameters_data.json.kind = "malformed" THEN RaiseOut ELSE FallThrough

\* try: parsed_params = json.loads(parameters_data) ...
\* except json.JSONDecodeError: pass
json_loads_guarded(parameters_data) == FallThrough

\* "Try JSON first", unified UI
strict_json_path(parameters_data) ==
    LET parsed_params == parameters_data.json
    IN  IF parsed_params.kind = "malformed" THEN json_loads_guarded(parameters_data)
        ELSE IF parsed_params.kind # "dict" THEN FallThrough
        ELSE LET key == first_key_from(possible_keys, 1, parsed_params.members)
             IN  IF key = << >> THEN FallThrough
                 ELSE Return(strict_value(dict_get(parsed_params.members, key)))

\* "Try to parse as JSON first", prompt_extractor.py and the WLSH UI:
\* return parsed_params[key]
simple_json_path(parameters_data) ==
    LET parsed_params == parameters_data.json
    IN  IF parsed_params.kind = "malformed" THEN json_loads_guarded(parameters_data)
        ELSE IF parsed_params.kind # "dict" THEN FallThrough
        ELSE LET key == first_key_from(possible_keys, 1, parsed_params.members)
             IN  IF key = << >> THEN FallThrough
                 ELSE Return(dict_get(parsed_params.members, key))

s_positive_prompt_colon == <<"p","o","s","i","t","i","v","e"," ","p","r","o","m","p","t",":">>

\* line.strip().lower().startswith('positive prompt:')
is_prompt_line(line) == StartsWith(Lower(Strip(line)), s_positive_prompt_colon)

\* the position of the first line the for loop stops at (0: none)
matched_line(lines) ==
    IF \E i \in 1..Len(lines) : is_prompt_line(lines[i])
    THEN CHOOSE i \in 1..Len(lines) :
             /\ is_prompt_line(lines[i])
             /\ \A j \in 1..(i - 1) : ~is_prompt_line(lines[j])
    ELSE 0

known_parameters ==
    { <<"n","e","g","a","t","i","v","e"," ","p","r","o","m","p","t">>, <<"s","t","e","p","s">>, <<"s","a","m","p","l","e","r">>, <<"c","f","g"," ","s","c","a","l","e">>,
      <<"s","e","e","d">>, <<"s","i","z","e">>, <<"m","o","d","e","l">>, <<"c","l","i","p"," ","s","k","i","p">> }

\* the loop never left early
strict_break_never(next_line) == FALSE

\* nl = next_line.strip().lower()
\* if ':' in nl and any(param in nl for param in [...]): break
strict_break(next_line) ==
    LET nl == Lower(Strip(next_line))
    IN  /\ HasChar(":", nl)
        /\ \E param \in known_parameters : Contains(param, nl)

RECURSIVE strict_continuation(_, _, _)
\* while j < len(lines): ... prompt_lines.append(next_line.rstrip()); j += 1
strict_continuation(lines, j, prompt_lines) ==
    IF j > Len(lines) THEN prompt_lines
    ELSE IF strict_break(lines[j]) THEN prompt_lines
    ELSE strict_continuation(lines, j + 1, Append(prompt_lines, RStrip(lines[j])))

RECURSIVE leading_blank(_, _)
\* while k < len(out_lines) and out_lines[k].strip() == '': k += 1
leading_blank(out_lines, k) ==
    IF k < Len(out_lines) /\ Strip(out_lines[k + 1]) = << >>
    THEN leading_blank(out_lines, k + 1)
    ELSE k

\* no leading line skipped
skip_none(out_lines) == 0

\* k = 0, and the while loop after it
skip_blank(out_lines) == leading_blank(out_lines, 0)

\* "Parse text format", unified UI
strict_text_parse(text) ==
    LET lines == Split(text, "\n")
        i == matched_line(lines)
    IN  IF i = 0 THEN Return(PyNone)
        ELSE LET prompt_text == IF HasChar(":", lines[i])
                                THEN Strip(AfterFirstColon(lines[i])) ELSE << >>
                 prompt_lines == strict_continuation(lines, i + 1,
                                     IF prompt_text # << >> THEN <<prompt_text>> ELSE << >>)
                 full_prompt == RStrip(JoinLines(prompt_lines))
                 out_lines == SplitLines(full_prompt)
                 k == skip_blank(out_lines)
             IN  IF k < Len(out_lines)
                 THEN Return(JStr(JoinLines(DropFirst(out_lines, k))))
                 ELSE Return(PyNone)

\* ComfyUIPromptExtractorUI.extract_positive_from_parameters_strict (PIL
\* gives a text chunk as a str, so the isinstance branches leave it as it
\* is); except Exception: return None
extract_positive_from_parameters_strict(metadata) ==
    IF ~metadata.parameters.present THEN Return(PyNone)
    ELSE LET parameters_data == metadata.parameters
             json == strict_json_path(parameters_data)
         IN  IF json.raised THEN Return(PyNone)
             ELSE IF json.returned THEN json
             ELSE strict_text_parse(parameters_data.text)

\* the test of the strict policy in the place of the simple one
simple_break_like_strict(next_line) == strict_break(next_line)

\* next_line = lines[j].strip()
\* if ':' in next_line or not next_line: break
simple_break(next_line) == HasChar(":", next_line) \/ next_line = << >>

RECURSIVE simple_continuation(_, _, _)
\* while j < len(lines): ... prompt_text += ' ' + next_line; j += 1
simple_continuation(lines, j, prompt_text) ==
    IF j > Len(lines) THEN prompt_text
    ELSE LET next_line == Strip(lines[j])
         IN  IF simple_break(next_line) THEN prompt_text
             ELSE simple_continuation(lines, j + 1, prompt_text \o <<" ">> \o next_line)

\* "Parse as text format", prompt_extractor.py and the WLSH UI
simple_text_parse(text) ==
    LET lines == Split(text, "\n")
        i == matched_line(lines)
    IN  IF i = 0 THEN Return(PyNone)
        ELSE Return(JStr(simple_continuation(lines, i + 1,
                             Strip(AfterFirstColon(Strip(lines[i]))))))

\* extract_positive_prompt of prompt_extractor.py and of the WLSH UI; an
\* exception leaves it as  Exception("Error reading PNG file: ...")
extract_positive_prompt(file) ==
    IF ~file.is_png THEN RaiseOut
    ELSE IF ~file.parameters.present THEN Return(PyNone)
    ELSE LET parameters_data == file.parameters
             json == simple_json_path(parameters_data)
         IN  IF json.raised THEN RaiseOut
             ELSE IF json.returned THEN json
             ELSE simple_text_parse(parameters_data.text)

(***************************************************************************)
(* State.                                                                  *)
(***************************************************************************)
VARIABLES
    workflow_data,      \* the nodes the workflow extractors are called on
    wf_unified,         \* what the unified UI extractor returned for them
    wf_cli,             \* what the command-line extractor returned for them
    frontend,           \* "cli": comfyprompt_extractor.main; "ui": the unified UI
                        \* worker; "drop": the drop UI worker
    file_paths,         \* the batch: files_to_process / file_paths
    idx,                \* position of the file the batch loop is at
    pc,                 \* position inside the batch loop and the per-file call
    positive_prompts,   \* result['positive_prompts'] of the call in progress
    processed_nodes,    \* processed_nodes of the call in progress
    results,            \* ui: the worker's local list  results
    printed,            \* cli: the per-file reports main has printed
    current_results,    \* ui: self.current_results, set by update_results
    error_shown,        \* ui: show_error has run
    parameters_file,    \* the file the parameters extractors are called on
    par_strict,         \* what extract_positive_from_parameters_strict returned
    par_simple,         \* what extract_positive_prompt returned (or raised)
    par_mode,           \* what extract_positive_prompts_parameters returned
    extractor_mode,     \* window: self.extractor_mode, "ComfyUI" or "Parameters"
    current_files,      \* window: self.current_files
    all_prompt_texts,   \* window: self.all_prompt_texts
    prompt_text_widget, \* window: the prompt texts self.prompt_text shows
    summary_text,       \* window: what self.summary_text shows
    browse_btn,         \* window: state of browse_file_btn and browse_folder_btn
    copy_btn,           \* window: state of copy_btn, copy_first_btn and save_btn
    progress,           \* window: the progress bar, "running" or "stopped"
    workers,            \* window: the extract_prompts_thread threads started
    after_queue,        \* window: the callbacks posted with root.after(0, ...)
    prompt_data,        \* the pairs the prompt-data extractors are called on
    pd_unified,         \* what the unified UI extractor returned for them
    pd_cli              \* what the command-line extractor returned for them

vars == <<workflow_data, wf_unified, wf_cli, frontend, file_paths, idx, pc,
          positive_prompts, processed_nodes, results, printed,
          current_results, error_shown,
          parameters_file, par_strict, par_simple, par_mode,
          extractor_mode, current_files, all_prompt_texts, prompt_text_widget,
          summary_text, browse_btn, copy_btn, progress, workers, after_queue,
          prompt_data, pd_unified, pd_cli>>

pd_vars == <<prompt_data, pd_unified, pd_cli>>

ui_vars == <<extractor_mode, current_files, all_prompt_texts,
             prompt_text_widget, summary_text, browse_btn, copy_btn, progress,
             workers, after_queue>>

par_vars == <<parameters_file, par_strict, par_simple, par_mode>>

wf_vars == <<workflow_data, wf_unified, wf_cli>>

batch_vars == <<frontend, file_paths, idx, pc, positive_prompts,
                processed_nodes, results, printed, current_results,
                error_shown>>

NotCalled == [called |-> FALSE, out |-> WfAcc({})]

\* the value of the parameters variables where no parameters extractor runs
ParamsIdle ==
    /\ parameters_file = << >>
    /\ par_strict = << >>
    /\ par_simple = << >>
    /\ par_mode = << >>

\* the value of the prompt-data variables where no prompt-data extractor runs
PromptIdle ==
    /\ prompt_data = << >>
    /\ pd_unified = NotCalled
    /\ pd_cli = NotCalled

\* what self.summary_text shows when it is empty
NoSummary == [mode |-> "none", files |-> 0, methods |-> << >>]

\* the value of the window's variables where no window runs
WindowIdle ==
    /\ extractor_mode = "ComfyUI"
    /\ current_files = << >>
    /\ all_prompt_texts = << >>
    /\ prompt_text_widget = << >>
    /\ summary_text = NoSummary
    /\ browse_btn = "normal"
    /\ copy_btn = "disabled"
    /\ progress = "stopped"
    /\ workers = << >>
    /\ after_queue = << >>

Returned(out) == [called |-> TRUE, out |-> out]

(***************************************************************************)
(* The workflow extractors on their own.                                   *)
(***************************************************************************)
InitWF ==
    /\ workflow_data \in Workflows
    /\ wf_unified = NotCalled
    /\ wf_cli = NotCalled
    /\ frontend = "none"
    /\ file_paths = << >>
    /\ idx = 1
    /\ pc = "extractor"
    /\ positive_prompts = << >>
    /\ processed_nodes = {}
    /\ results = << >>
    /\ printed = << >>
    /\ current_results = << >>
    /\ error_shown = FALSE
    /\ ParamsIdle
    /\ WindowIdle
    /\ PromptIdle

\* the callers pass the set they have just created (processed_nodes = set())
CallUnifiedWorkflow ==
    /\ pc = "extractor"
    /\ ~wf_unified.called
    /\ wf_unified' = Returned(extract_positive_from_workflow(workflow_data, {}))
    /\ UNCHANGED <<workflow_data, wf_cli, batch_vars, par_vars, ui_vars, pd_vars>>

CallCliWorkflow ==
    /\ pc = "extractor"
    /\ ~wf_cli.called
    /\ wf_cli' = Returned(cli_extract_positive_from_workflow(workflow_data, {}))
    /\ UNCHANGED <<workflow_data, wf_unified, batch_vars, par_vars, ui_vars, pd_vars>>

NextWF == CallUnifiedWorkflow \/ CallCliWorkflow

SpecWF == InitWF /\ [][NextWF]_vars

(***************************************************************************)
(* The files of a batch.  A file is what Image.open and img.info give:     *)
(* whether it opens as a PNG, and the "workflow" and "prompt" text chunks, *)
(* each missing ("absent"), not decodable by json.loads ("malformed"), or  *)
(* decoded ("object").                                                     *)
(***************************************************************************)
Absent == [kind |-> "absent", data |-> << >>]
Malformed == [kind |-> "malformed", data |-> << >>]
Decoded(data) == [kind |-> "object", data |-> data]

File(is_png, workflow, prompt) ==
    [is_png |-> is_png, workflow |-> workflow, prompt |-> prompt,
     parameters |-> NoParameters]

k_1 == <<"1">>
k_2 == <<"2">>

ClipItem(key, text) ==
    PromptItem(key, TRUE, s_CLIPTextEncode, TRUE, text, FALSE, JNull)

wf_positive_and_negative ==
    << Clip(IdInt(1), TRUE, s_Positive, JStr(t_a_cat)),
       Clip(IdInt(2), TRUE, s_Negative, JStr(t_a_dog)) >>

wf_only_negative == << Clip(IdInt(2), TRUE, s_Negative, JStr(t_a_dog)) >>

wf_same_id_twice ==
    << Clip(IdInt(1), TRUE, s_Positive, JStr(t_a_cat)),
       Clip(IdInt(1), TRUE, s_Positive, JStr(t_a_dog)) >>

wf_empty_list == << Clip(IdInt(1), TRUE, s_Positive, JList(<< >>)) >>

pd_two_texts ==
    << ClipItem(k_1, JStr(t_a_cat)), ClipItem(k_2, JStr(t_negative_x)) >>

pd_one_text ==
    << PromptItem(k_1, TRUE, s_KSampler, FALSE, JNull, FALSE, JNull),
       PromptItem(k_2, TRUE, s_CLIPTextEncode, FALSE, JNull, TRUE, JStr(t_a_dog)) >>

pd_list_text == << ClipItem(k_1, JList(<<t_a_cat>>)) >>

FilePool ==
    { File(FALSE, Absent, Absent),
      File(TRUE, Absent, Absent),
      File(TRUE, Decoded(wf_positive_and_negative), Absent),
      File(TRUE, Decoded(wf_positive_and_negative), Decoded(pd_two_texts)),
      File(TRUE, Decoded(wf_only_negative), Decoded(pd_one_text)),
      File(TRUE, Decoded(wf_only_negative), Malformed),
      File(TRUE, Malformed, Decoded(pd_two_texts)),
      File(TRUE, Malformed, Malformed),
      File(TRUE, Decoded(wf_same_id_twice), Absent),
      File(TRUE, Decoded(wf_empty_list), Absent),
      File(TRUE, Absent, Decoded(pd_list_text)) }

Batches == SeqsUpTo(FilePool, MaxFiles) \ { << >> }

(***************************************************************************)
(* ExtractionPipeline: one call of extract_positive_prompts_only /         *)
(* extract_positive_prompts_comfyui, in the steps of its body.             *)
(***************************************************************************)
\* processed_nodes kept from the call before
kept_processed_nodes == processed_nodes

\* processed_nodes = set()
new_processed_nodes == {}

\* the list kept from the call before
kept_positive_prompts == positive_prompts

\* 'positive_prompts': []
new_positive_prompts == << >>

\* the drop UI's extractors are the command-line ones, line for line
workflow_extractor(fe, nodes, processed) ==
    IF fe = "ui" THEN extract_positive_from_workflow(nodes, processed)
    ELSE cli_extract_positive_from_workflow(nodes, processed)

prompt_extractor(fe, items, processed) ==
    IF fe = "ui" THEN extract_positive_from_prompt_data(items, processed)
    ELSE cli_extract_positive_from_prompt_data(items, processed)

\* json.JSONDecodeError not caught: it leaves the call
try_workflow_uncaught(fe, metadata, processed) ==
    IF metadata.workflow.kind = "absent" THEN WfAcc(processed)
    ELSE IF metadata.workflow.kind = "malformed"
         THEN [WfAcc(processed) EXCEPT !.raised = TRUE]
         ELSE workflow_extractor(fe, metadata.workflow.data, processed)

\* if 'workflow' in metadata: try ... except json.JSONDecodeError
try_workflow(fe, metadata, processed) ==
    IF metadata.workflow.kind = "absent" THEN WfAcc(processed)
    ELSE IF metadata.workflow.kind = "malformed" THEN WfAcc(processed)
         ELSE workflow_extractor(fe, metadata.workflow.data, processed)

\* the test on the records found so far left out
should_try_prompt_always(found, metadata) == metadata.prompt.kind # "absent"

\* if not result['positive_prompts'] and 'prompt' in metadata:
should_try_prompt(found, metadata) ==
    found = << >> /\ metadata.prompt.kind # "absent"

try_prompt(fe, metadata, found, processed) ==
    IF ~should_try_prompt(found, metadata) THEN WfAcc(processed)
    ELSE IF metadata.prompt.kind = "malformed" THEN WfAcc(processed)
         ELSE prompt_extractor(fe, metadata.prompt.data, processed)

\* one entry of results / printed
Report(filename, ok, prompts) ==
    [filename |-> filename, ok |-> ok, positive_prompts |-> prompts]

InitBatch ==
    /\ frontend \in {"cli", "ui", "drop"}
    /\ file_paths \in Batches
    /\ idx = 1
    /\ pc = "loop"
    /\ positive_prompts = << >>
    /\ processed_nodes = {}
    /\ results = << >>
    /\ printed = << >>
    /\ current_results = << >>
    /\ error_shown = FALSE
    /\ workflow_data = << >>
    /\ wf_unified = NotCalled
    /\ wf_cli = NotCalled
    /\ ParamsIdle
    /\ WindowIdle
    /\ PromptIdle

\* an exception leaves the per-file call ("Error reading PNG file: ...").
\* main catches it inside its for loop, prints it and goes on; the UI workers
\* catch it outside their for loop and post show_error
RaiseInFile ==
    IF frontend = "cli"
    THEN /\ printed' = Append(printed, Report(idx, FALSE, << >>))
         /\ idx' = idx + 1
         /\ pc' = "loop"
         /\ UNCHANGED results
    ELSE /\ pc' = "posted_error"
         /\ UNCHANGED <<idx, printed, results>>

\* with Image.open(file_path) ... result = {...}; processed_nodes = set()
OpenFile ==
    /\ pc = "loop"
    /\ idx <= Len(file_paths)
    /\ IF file_paths[idx].is_png
       THEN /\ positive_prompts' = new_positive_prompts
            /\ processed_nodes' = new_processed_nodes
            /\ pc' = "workflow"
            /\ UNCHANGED <<idx, printed, results>>
       ELSE /\ RaiseInFile
            /\ UNCHANGED <<positive_prompts, processed_nodes>>
    /\ UNCHANGED <<frontend, file_paths, current_results, error_shown, wf_vars, par_vars, ui_vars, pd_vars>>

\* "Try workflow first"
WorkflowPass ==
    /\ pc = "workflow"
    /\ LET out == try_workflow(frontend, file_paths[idx], processed_nodes)
       IN  IF out.raised
           THEN /\ RaiseInFile
                /\ processed_nodes' = out.processed_nodes
                /\ UNCHANGED positive_prompts
           ELSE /\ positive_prompts' = positive_prompts \o out.positive_prompts
                /\ processed_nodes' = out.processed_nodes
                /\ pc' = "prompt"
                /\ UNCHANGED <<idx, printed, results>>
    /\ UNCHANGED <<frontend, file_paths, current_results, error_shown, wf_vars, par_vars, ui_vars, pd_vars>>

\* "Then prompt data if none found"
PromptPass ==
    /\ pc = "prompt"
    /\ LET out == try_prompt(frontend, file_paths[idx], positive_prompts, processed_nodes)
       IN  IF out.raised
           THEN /\ RaiseInFile
                /\ processed_nodes' = out.processed_nodes
                /\ UNCHANGED positive_prompts
           ELSE /\ positive_prompts' = positive_prompts \o out.positive_prompts
                /\ processed_nodes' = out.processed_nodes
                /\ pc' = "return"
                /\ UNCHANGED <<idx, printed, results>>
    /\ UNCHANGED <<frontend, file_paths, current_results, error_shown, wf_vars, par_vars, ui_vars, pd_vars>>

\* return result: main prints it, the worker appends it to results
ReturnResult ==
    /\ pc = "return"
    /\ IF frontend = "cli"
       THEN /\ printed' = Append(printed, Report(idx, TRUE, positive_prompts))
            /\ UNCHANGED results
       ELSE /\ results' = Append(results, Report(idx, TRUE, positive_prompts))
            /\ UNCHANGED printed
    /\ idx' = idx + 1
    /\ pc' = "loop"
    /\ UNCHANGED <<frontend, file_paths, positive_prompts, processed_nodes,
                   current_results, error_shown, wf_vars, par_vars, ui_vars, pd_vars>>

\* the for loop is over: main ends; the worker posts
\* root.after(0, self.update_results, results, file_paths)
EndOfBatch ==
    /\ pc = "loop"
    /\ idx > Len(file_paths)
    /\ pc' = IF frontend = "cli" THEN "done" ELSE "posted_results"
    /\ UNCHANGED <<frontend, file_paths, idx, positive_prompts, processed_nodes,
                   results, printed, current_results, error_shown, wf_vars, par_vars, ui_vars, pd_vars>>

\* UI thread: self.current_results = results
update_results ==
    /\ pc = "posted_results"
    /\ current_results' = results
    /\ pc' = "done"
    /\ UNCHANGED <<frontend, file_paths, idx, positive_prompts, processed_nodes,
                   results, printed, error_shown, wf_vars, par_vars, ui_vars, pd_vars>>

\* UI thread: the error dialog; current_results is left as it was
show_error ==
    /\ pc = "posted_error"
    /\ error_shown' = TRUE
    /\ pc' = "done"
    /\ UNCHANGED <<frontend, file_paths, idx, positive_prompts, processed_nodes,
                   results, printed, current_results, wf_vars, par_vars, ui_vars, pd_vars>>

Next ==
    \/ OpenFile
    \/ WorkflowPass
    \/ PromptPass
    \/ ReturnResult
    \/ EndOfBatch
    \/ update_results
    \/ show_error

Spec == InitBatch /\ [][Next]_vars

(***************************************************************************)
(* Parameters mode of the unified UI:                                      *)
(* ComfyUIPromptExtractorUI.extract_positive_prompts_parameters             *)
(***************************************************************************)
s_parameters == <<"p","a","r","a","m","e","t","e","r","s">>
s_Parameters == <<"P","a","r","a","m","e","t","e","r","s">>

\* result['positive_prompts'].append({...})
parameters_record(prompt_text) ==
    [text |-> prompt_text, node_id |-> IdStr(s_parameters),
     node_type |-> s_parameters, title |-> s_Parameters,
     source |-> "parameters"]

\* a record for whatever is not None
parameters_records_not_none(prompt_text) ==
    IF prompt_text.kind # "null" THEN <<parameters_record(prompt_text.s)>>
    ELSE << >>

\* if prompt_text: result['positive_prompts'].append({...})
parameters_records(prompt_text) ==
    IF truthy(prompt_text) THEN <<parameters_record(prompt_text.s)>>
    ELSE << >>

\* the result of one per-file call, or the exception that left it
FileResult(raised, prompts, method) ==
    [raised |-> raised, positive_prompts |-> prompts,
     extraction_method |-> method]

extract_positive_prompts_parameters(file) ==
    IF ~file.is_png THEN FileResult(TRUE, << >>, "parameters")
    ELSE LET prompt_text == extract_positive_from_parameters_strict(file).value
         IN  FileResult(FALSE, parameters_records(prompt_text), "parameters")

(***************************************************************************)
(* Inputs of the parameters extractors: texts of up to MaxLines lines, and *)
(* JSON objects of up to MaxMembers members, written as json.dumps writes  *)
(* them.  No text of ParamLines is JSON.                                   *)
(***************************************************************************)
l_Positive_prompt_foo_bar == <<"P","o","s","i","t","i","v","e"," ","p","r","o","m","p","t",":"," ","f","o","o"," ","b","a","r">>
l_positive_prompt_nothing == <<"p","o","s","i","t","i","v","e"," ","p","r","o","m","p","t",":">>
l_POSITIVE_PROMPT_a_cr_b == <<" "," ","P","O","S","I","T","I","V","E"," ","P","R","O","M","P","T",":"," "," ","a">> \o <<"\r">> \o <<"b"," ">>
l_Steps_20 == <<"S","t","e","p","s",":"," ","2","0">>
l_CFG_scale_7 == <<"C","F","G"," ","s","c","a","l","e",":"," ","7",","," ","S","e","e","d",":"," ","1">>
l_note_x == <<"n","o","t","e",":"," ","x">>
l_empty == << >>
l_indented_b == <<" "," ","b"," ">>
l_masterpiece == <<"m","a","s","t","e","r","p","i","e","c","e">>

ParamLines ==
    { l_Positive_prompt_foo_bar, l_positive_prompt_nothing,
      l_POSITIVE_PROMPT_a_cr_b, l_Steps_20, l_note_x, l_empty,
      l_indented_b, l_masterpiece }

ParamTexts ==
    { JoinLines(ls) : ls \in SeqsUpTo(ParamLines, MaxLines) \ { << >> } }
    \cup { JoinLines(<<l_Positive_prompt_foo_bar, l_CFG_scale_7>>) }

v_foo_bar == JStr(<<"f","o","o"," ","b","a","r">>)
v_a_b == PList(<<JStr(<<"a">>), JStr(<<"b">>)>>)
k_steps == <<"s","t","e","p","s">>

ParamKeys == {possible_keys[i] : i \in 1..Len(possible_keys)} \cup {k_steps}

ParamValues == {v_foo_bar, v_a_b}

ParamMembers == { Member(k, v) : k \in ParamKeys, v \in ParamValues }

ParamObjects ==
    SeqsUpTo(ParamMembers, MaxMembers)
    \cup { <<Member(k_Positive_prompt, JNull), Member(k_prompt, v_foo_bar)>>,
           <<Member(k_steps, JNull)>>,
           <<Member(k_prompt, JStr(<< >>))>>,
           <<Member(k_prompt, JNum(7))>>,
           <<Member(k_prompt, PList(<< >>))>>,
           <<Member(k_Prompt, PList(<<JStr(<<"a">>), JNum(1), JNull>>))>> }

Quoted(s) == <<"\"">> \o s \o <<"\"">>

\* json.dumps of a scalar
dumps_scalar(v) ==
    IF v.kind = "str" THEN Quoted(v.s)
    ELSE IF v.kind = "num" THEN StrNat(v.n)
    ELSE <<"n","u","l","l">>

dumps_value(v) ==
    IF v.kind = "list"
    THEN <<"[">> \o JoinWith([i \in 1..Len(v.items) |-> dumps_scalar(v.items[i])],
                             <<","," ">>) \o <<"]">>
    ELSE dumps_scalar(v)

dumps_object(members) ==
    <<"{">> \o JoinWith([i \in 1..Len(members) |->
                            Quoted(members[i].key) \o <<":"," ">> \o dumps_value(members[i].value)],
                        <<","," ">>) \o <<"}">>

\* JSON texts that are no object: a number, a string, an array
ParamOtherJson ==
    { <<"2","0">>, Quoted(<<"p","o","s","i","t","i","v","e"," ","p","r","o","m","p","t",":"," ","x">>), dumps_value(v_a_b) }

ParamInputs ==
    { ParametersData(t, NotJson) : t \in ParamTexts }
    \cup { ParametersData(dumps_object(m), JsonObject(m)) : m \in ParamObjects }
    \cup { ParametersData(t, JsonOther) : t \in ParamOtherJson }

WithParameters(file, parameters) == [file EXCEPT !.parameters = parameters]

p_foo_bar_steps ==
    ParametersData(JoinLines(<<l_Positive_prompt_foo_bar, l_Steps_20>>), NotJson)

\* the files the parameters extractors are run on: every input in a PNG with
\* no other chunk, and a few files with graphs, without parameters, or that
\* are no PNG
ParamFiles ==
    { WithParameters(File(TRUE, Absent, Absent), p) : p \in ParamInputs }
    \cup { File(TRUE, Absent, Absent),
           File(TRUE, Decoded(wf_positive_and_negative), Decoded(pd_two_texts)),
           WithParameters(File(TRUE, Decoded(wf_positive_and_negative),
                               Decoded(pd_two_texts)), p_foo_bar_steps),
           WithParameters(File(TRUE, Malformed, Malformed), p_foo_bar_steps),
           WithParameters(File(FALSE, Absent, Absent), p_foo_bar_steps) }

(***************************************************************************)
(* The parameters extractors on their own.                                 *)
(***************************************************************************)
NoCall == [called |-> FALSE, out |-> Return(PyNone)]

Called(out) == [called |-> TRUE, out |-> out]

NoModeCall == [called |-> FALSE, out |-> FileResult(FALSE, << >>, "parameters")]

InitParams ==
    /\ parameters_file \in ParamFiles
    /\ par_strict = NoCall
    /\ par_simple = NoCall
    /\ par_mode = NoModeCall
    /\ pc = "parameters"
    /\ frontend = "none"
    /\ file_paths = << >>
    /\ idx = 1
    /\ positive_prompts = << >>
    /\ processed_nodes = {}
    /\ results = << >>
    /\ printed = << >>
    /\ current_results = << >>
    /\ error_shown = FALSE
    /\ workflow_data = << >>
    /\ wf_unified = NotCalled
    /\ wf_cli = NotCalled
    /\ WindowIdle
    /\ PromptIdle

CallStrict ==
    /\ pc = "parameters"
    /\ ~par_strict.called
    /\ par_strict' = Called(extract_positive_from_parameters_strict(parameters_file))
    /\ UNCHANGED <<parameters_file, par_simple, par_mode, wf_vars, batch_vars, ui_vars, pd_vars>>

CallSimple ==
    /\ pc = "parameters"
    /\ ~par_simple.called
    /\ par_simple' = Called(extract_positive_prompt(parameters_file))
    /\ UNCHANGED <<parameters_file, par_strict, par_mode, wf_vars, batch_vars, ui_vars, pd_vars>>

CallParametersMode ==
    /\ pc = "parameters"
    /\ ~par_mode.called
    /\ par_mode' = Called(extract_positive_prompts_parameters(parameters_file))
    /\ UNCHANGED <<parameters_file, par_strict, par_simple, wf_vars, batch_vars, ui_vars, pd_vars>>

NextParams == CallStrict \/ CallSimple \/ CallParametersMode

SpecParams == InitParams /\ [][NextParams]_vars

(***************************************************************************)
(* The window of the multi-file UIs (unified_extractor_ui.py, and          *)
(* comfy_drop_ui.py where frontend = "drop"): the handlers run on the      *)
(* thread that owns the window, each extract_prompts_thread on a thread of *)
(* its own, and root.after(0, ...) posts a callback to the window's        *)
(* thread, which runs the posted callbacks in the order they were posted.  *)
(***************************************************************************)
\* the threads one behaviour starts
MaxRuns == 2

f_cat == File(TRUE, Decoded(wf_positive_and_negative), Absent)

f_foo == WithParameters(File(TRUE, Absent, Absent), p_foo_bar_steps)

f_not_png == File(FALSE, Absent, Absent)

\* valid_files: selections of existing files named *.png
Selections == { <<f_foo>>, <<f_cat, f_foo>>, <<f_cat, f_not_png>> }

\* extract_positive_prompts_comfyui / the drop UI's
\* extract_positive_prompts_only: one call, start to end
extract_positive_prompts_comfyui(fe, file) ==
    LET method == IF fe = "ui" THEN "comfyui" ELSE "unknown"
    IN  IF ~file.is_png THEN FileResult(TRUE, << >>, method)
        ELSE LET wf == try_workflow(fe, file, new_processed_nodes)
             IN  IF wf.raised THEN FileResult(TRUE, << >>, method)
                 ELSE LET pd == try_prompt(fe, file, wf.positive_prompts,
                                           wf.processed_nodes)
                      IN  FileResult(pd.raised,
                                     wf.positive_prompts \o pd.positive_prompts,
                                     method)

\* the body of  for file_path in file_paths  (the drop UI has one extractor)
run_extractor(fe, mode, file) ==
    IF fe = "ui" /\ mode # "ComfyUI"
    THEN extract_positive_prompts_parameters(file)
    ELSE extract_positive_prompts_comfyui(fe, file)

\* the for loop left after its first file
loop_left_early(done, paths) == Len(done) >= 1

\* the for loop has gone through file_paths
loop_finished(done, paths) == Len(done) = Len(paths)

Worker(paths, mode) ==
    [file_paths |-> paths, mode |-> mode, results |-> << >>, st |-> "running"]

\* a thread that has ended: its locals are gone
EndedWorker ==
    [file_paths |-> << >>, mode |-> "none", results |-> << >>, st |-> "ended"]

\* root.after(0, handler, ...) of thread  run
Callback(handler, run, res, paths) ==
    [handler |-> handler, run |-> run, results |-> res, file_paths |-> paths]

\* the exception not caught: the thread ends and posts nothing
except_nothing(queue, run) == queue

\* except Exception as e: self.root.after(0, self.show_error, str(e))
except_Exception(queue, run) ==
    Append(queue, Callback("show_error", run, << >>, << >>))

\* all_prompt_texts.append(prompt_text), for each record of each result
RECURSIVE prompt_texts(_)
prompt_texts(res) ==
    IF res = << >> THEN << >>
    ELSE [j \in 1..Len(Head(res).positive_prompts) |->
                Head(res).positive_prompts[j].text]
         \o prompt_texts(Tail(res))

\* the "[method]" of each result that has prompts
RECURSIVE summary_methods(_)
summary_methods(res) ==
    IF res = << >> THEN << >>
    ELSE (IF Head(res).positive_prompts # << >>
          THEN <<Head(res).extraction_method>> ELSE << >>)
         \o summary_methods(Tail(res))

InitUI ==
    /\ frontend \in {"ui", "drop"}
    /\ WindowIdle
    /\ PromptIdle
    /\ current_results = << >>
    /\ error_shown = FALSE
    /\ pc = "window"
    /\ file_paths = << >>
    /\ idx = 1
    /\ positive_prompts = << >>
    /\ processed_nodes = {}
    /\ results = << >>
    /\ printed = << >>
    /\ workflow_data = << >>
    /\ wf_unified = NotCalled
    /\ wf_cli = NotCalled
    /\ ParamsIdle

\* what no action of the window touches
window_rest == <<frontend, file_paths, idx, pc, positive_prompts,
                 processed_nodes, results, printed, wf_vars, par_vars,
                 pd_vars>>

\* progress.start(); the five buttons disabled; thread.start()
start_run(paths, mode) ==
    /\ Len(workers) < MaxRuns
    /\ progress' = "running"
    /\ browse_btn' = "disabled"
    /\ copy_btn' = "disabled"
    /\ workers' = Append(workers, Worker(paths, mode))

\* load_files with valid_files = paths; the drop UI leaves current_files
\* to update_results
load_files(paths) ==
    /\ pc = "window"
    /\ start_run(paths, extractor_mode)
    /\ current_files' = IF frontend = "ui" THEN paths ELSE current_files
    /\ UNCHANGED <<extractor_mode, all_prompt_texts, prompt_text_widget,
                   summary_text, after_queue, current_results, error_shown,
                   window_rest>>

\* the browse buttons, which load_files disables
browse_file ==
    /\ browse_btn = "normal"
    /\ \E paths \in Selections : load_files(paths)

\* a drop on the window (or, without tkinterdnd2, a click on the drop area,
\* which calls browse_file): nothing disables it
on_drop == \E paths \in Selections : load_files(paths)

\* the mode_selector combobox sets extractor_mode and nothing else
select_mode ==
    /\ pc = "window"
    /\ frontend = "ui"
    /\ \E mode \in {"ComfyUI", "Parameters"} :
          /\ mode # extractor_mode
          /\ extractor_mode' = mode
    /\ UNCHANGED <<current_files, all_prompt_texts, prompt_text_widget,
                   summary_text, browse_btn, copy_btn, progress, workers,
                   after_queue, current_results, error_shown, window_rest>>

\* Ctrl+E, bound with bind_all: nothing disables it
toggle_mode_and_rerun ==
    /\ pc = "window"
    /\ frontend = "ui"
    /\ LET new_mode == IF extractor_mode = "ComfyUI" THEN "Parameters"
                       ELSE "ComfyUI"
       IN  /\ extractor_mode' = new_mode
           /\ IF current_files # << >>
              THEN start_run(current_files, new_mode)
              ELSE UNCHANGED <<browse_btn, copy_btn, progress, workers>>
    /\ UNCHANGED <<current_files, all_prompt_texts, prompt_text_widget,
                   summary_text, after_queue, current_results, error_shown,
                   window_rest>>

\* extract_prompts_thread, one pass of its for loop: the result is appended
\* to the thread's own list, or the exception leaves the loop and the thread
\* posts show_error
worker_extract(run) ==
    /\ pc = "window"
    /\ workers[run].st = "running"
    /\ Len(workers[run].results) < Len(workers[run].file_paths)
    /\ LET w == workers[run]
           result == run_extractor(frontend, w.mode,
                                   w.file_paths[Len(w.results) + 1])
       IN  IF result.raised
           THEN /\ workers' = [workers EXCEPT ![run] = EndedWorker]
                /\ after_queue' = except_Exception(after_queue, run)
           ELSE /\ workers' = [workers EXCEPT
                                 ![run].results = Append(@, result)]
                /\ UNCHANGED after_queue
    /\ UNCHANGED <<extractor_mode, current_files, all_prompt_texts,
                   prompt_text_widget, summary_text, browse_btn, copy_btn,
                   progress, current_results, error_shown, window_rest>>

\* extract_prompts_thread after its for loop:
\* self.root.after(0, self.update_results, results, file_paths)
worker_post(run) ==
    /\ pc = "window"
    /\ workers[run].st = "running"
    /\ loop_finished(workers[run].results, workers[run].file_paths)
    /\ workers' = [workers EXCEPT ![run] = EndedWorker]
    /\ after_queue' = Append(after_queue,
                             Callback("update_results", run,
                                      workers[run].results,
                                      workers[run].file_paths))
    /\ UNCHANGED <<extractor_mode, current_files, all_prompt_texts,
                   prompt_text_widget, summary_text, browse_btn, copy_btn,
                   progress, current_results, error_shown, window_rest>>

\* the window's thread runs a posted update_results(results, file_paths)
deliver_update_results ==
    /\ pc = "window"
    /\ after_queue # << >>
    /\ Head(after_queue).handler = "update_results"
    /\ LET cb == Head(after_queue)
           texts == prompt_texts(cb.results)
       IN  /\ progress' = "stopped"
           /\ browse_btn' = "normal"
           /\ current_results' = cb.results
           /\ current_files' = cb.file_paths
           /\ prompt_text_widget' = texts
           /\ summary_text' =
                 [mode |-> IF frontend = "ui" THEN extractor_mode ELSE "none",
                  files |-> Len(cb.results),
                  methods |-> summary_methods(cb.results)]
           /\ copy_btn' = IF texts # << >> THEN "normal" ELSE copy_btn
           /\ all_prompt_texts' = texts
    /\ after_queue' = Tail(after_queue)
    /\ UNCHANGED <<extractor_mode, workers, error_shown, window_rest>>

\* the window's thread runs a posted show_error(str(e))
deliver_show_error ==
    /\ pc = "window"
    /\ after_queue # << >>
    /\ Head(after_queue).handler = "show_error"
    /\ progress' = "stopped"
    /\ browse_btn' = "normal"
    /\ error_shown' = TRUE
    /\ after_queue' = Tail(after_queue)
    /\ UNCHANGED <<extractor_mode, current_files, all_prompt_texts,
                   prompt_text_widget, summary_text, copy_btn, workers,
                   current_results, window_rest>>

\* the Clear button, which nothing disables
clear_results ==
    /\ pc = "window"
    /\ prompt_text_widget' = << >>
    /\ summary_text' = NoSummary
    /\ copy_btn' = "disabled"
    /\ current_results' = << >>
    /\ current_files' = << >>
    /\ all_prompt_texts' = << >>
    /\ UNCHANGED <<extractor_mode, browse_btn, progress, workers, after_queue,
                   error_shown, window_rest>>

NextUI ==
    \/ browse_file
    \/ on_drop
    \/ select_mode
    \/ toggle_mode_and_rerun
    \/ \E run \in DOMAIN workers : worker_extract(run)
    \/ \E run \in DOMAIN workers : worker_post(run)
    \/ deliver_update_results
    \/ deliver_show_error
    \/ clear_results

SpecUI == InitUI /\ [][NextUI]_vars

\* thread  run  is inside its for loop: worker_extract(run) can be taken, and
\* taking it always changes workers[run]
extracting(run) ==
    /\ pc = "window"
    /\ run \in DOMAIN workers
    /\ workers[run].st = "running"
    /\ Len(workers[run].results) < Len(workers[run].file_paths)

\* a started thread keeps running until it ends, and the window's main loop
\* keeps running the callbacks posted to it.  The first conjunct is weak
\* fairness of worker_extract(run), with extracting(run) for its ENABLED
FairUI ==
    /\ \A run \in 1..MaxRuns :
         \/ []<>(~extracting(run))
         \/ []<><<extracting(run) /\ worker_extract(run)>>_vars
    /\ WF_vars(\E run \in DOMAIN workers : worker_post(run))
    /\ WF_vars(deliver_update_results \/ deliver_show_error)

SpecUILive == SpecUI /\ FairUI

(***************************************************************************)
(* The prompt-data extractors on their own.  prompt_data is the sequence   *)
(* of the (key, value) pairs of a decoded "prompt" object, up to MaxNodes  *)
(* of them, with distinct keys in either order.                            *)
(***************************************************************************)
\* the values of a pair, under a key that WithKey replaces
PromptShapes ==
    { ClipItem(k_1, text) :
        text \in { JStr(t_a_cat), JStr(t_a_dog), JStr(<< >>), JStr(t_blank),
                   JStr(t_negative_x), JStr(t_Negative_y),
                   JStr(t_negative_at_43), JStr(t_negative_at_46),
                   JList(<<t_a_cat>>), JList(<< >>), JNum(7), JNum(0), JNull } }
    \cup
    { PromptItem(k_1, TRUE, s_CLIPTextEncode, FALSE, JNull, TRUE, JStr(t_a_dog)),
      PromptItem(k_1, TRUE, s_CLIPTextEncode, TRUE, JStr(<< >>), TRUE, JStr(t_a_dog)),
      PromptItem(k_1, TRUE, s_CLIPTextEncode, TRUE, JNull, TRUE, JStr(t_a_dog)),
      PromptItem(k_1, TRUE, s_CLIPTextEncode, FALSE, JNull, FALSE, JNull),
      PromptItem(k_1, FALSE, << >>, FALSE, JNull, FALSE, JNull),
      PromptItem(k_1, TRUE, s_KSampler, TRUE, JStr(t_a_cat), FALSE, JNull),
      PromptItem(k_1, TRUE, s_CLIPTextEncodeSDXL, TRUE, JStr(t_a_cat), FALSE, JNull) }

WithKey(item, key) == [item EXCEPT !.key = key]

\* the keys "1", "2", ... in ascending or in descending order
KeyAt(ascending, i) == IF ascending THEN StrNat(i) ELSE StrNat(MaxNodes + 1 - i)

PromptData ==
    { [i \in 1..Len(shapes) |-> WithKey(shapes[i], KeyAt(ascending, i))] :
        shapes \in SeqsUpTo(PromptShapes, MaxNodes), ascending \in BOOLEAN }

InitPD ==
    /\ prompt_data \in PromptData
    /\ pd_unified = NotCalled
    /\ pd_cli = NotCalled
    /\ pc = "prompt_extractor"
    /\ frontend = "none"
    /\ file_paths = << >>
    /\ idx = 1
    /\ positive_prompts = << >>
    /\ processed_nodes = {}
    /\ results = << >>
    /\ printed = << >>
    /\ current_results = << >>
    /\ error_shown = FALSE
    /\ workflow_data = << >>
    /\ wf_unified = NotCalled
    /\ wf_cli = NotCalled
    /\ ParamsIdle
    /\ WindowIdle

\* the callers pass the set of the workflow pass, which is empty whenever the
\* prompt pass runs
CallUnifiedPrompt ==
    /\ pc = "prompt_extractor"
    /\ ~pd_unified.called
    /\ pd_unified' = Returned(extract_positive_from_prompt_data(prompt_data, {}))
    /\ UNCHANGED <<prompt_data, pd_cli, wf_vars, batch_vars, par_vars, ui_vars>>

CallCliPrompt ==
    /\ pc = "prompt_extractor"
    /\ ~pd_cli.called
    /\ pd_cli' = Returned(cli_extract_positive_from_prompt_data(prompt_data, {}))
    /\ UNCHANGED <<prompt_data, pd_unified, wf_vars, batch_vars, par_vars, ui_vars>>

NextPD == CallUnifiedPrompt \/ CallCliPrompt

SpecPD == InitPD /\ [][NextPD]_vars

(***************************************************************************)
(* The two kinds of graph extractors, each on its own inputs.              *)
(***************************************************************************)
InitGraphs == InitWF \/ InitPD

NextGraphs == NextWF \/ NextPD

SpecGraphs == InitGraphs /\ [][NextGraphs]_vars

(***************************************************************************)
(* Properties of the workflow extractors (SpecWF).                         *)
(***************************************************************************)
WfCalls == { c \in {wf_unified, wf_cli} : c.called }

\* the node at position k was appended to the output
Included(k, out) == \E r \in 1..Len(out.emitted) : out.emitted[r] = k

\* ... and its record carries the node's own text
IncludedWithText(k, out) ==
    \E r \in 1..Len(out.emitted) :
        /\ out.emitted[r] = k
        /\ out.positive_prompts[r].text = workflow_data[k].widgets_values[1].s

\* a CLIPTextEncode node titled "Positive" whose widgets_values[0] is
\* non-empty text (text with something other than white space in it)
PositiveTitledText(k) ==
    LET node == workflow_data[k]
    IN  /\ node.type = s_CLIPTextEncode
        /\ node.has_title
        /\ node.title = s_Positive
        /\ node.widgets_values # << >>
        /\ node.widgets_values[1].kind = "str"
        /\ Strip(node.widgets_values[1].s) # << >>

\* ... whose text does not start with "negative"
PositiveTitledGoodText(k) ==
    /\ PositiveTitledText(k)
    /\ ~StartsWith(Strip(Lower(workflow_data[k].widgets_values[1].s)), s_negative)

\* an earlier node with the same id is already in the output
ShadowedByEarlier(k, out) ==
    \E j \in 1..(k - 1) :
        /\ Included(j, out)
        /\ workflow_data[j].id = workflow_data[k].id

\* every text-encode node of the workflow carries a str in widgets_values[0]
TextEncodeValuesAreStrings ==
    \A j \in 1..Len(workflow_data) :
        (is_text_encode(workflow_data[j]) /\ workflow_data[j].widgets_values # << >>)
            => workflow_data[j].widgets_values[1].kind = "str"

C2_NegTitleNeverEmitted ==
    \A c \in WfCalls : \A k \in 1..Len(workflow_data) :
        (workflow_data[k].has_title /\ Contains(s_neg, Lower(workflow_data[k].title)))
            => ~Included(k, c.out)

\* a text-encode node titled "Pos Neg" (positive test passes) with good text
\* was left out while the node before it was emitted
C2_Witness ==
    /\ wf_unified.called
    /\ wf_cli.called
    /\ \E k \in 2..Len(workflow_data) :
        /\ workflow_data[k] = Clip(IdInt(2), TRUE, s_Pos_Neg, JStr(t_a_cat))
        /\ is_positive(Lower(s_Pos_Neg), JStr(t_a_cat))
        /\ ~Included(k, wf_unified.out)
        /\ ~Included(k, wf_cli.out)
        /\ Included(1, wf_unified.out)

\* the text of widgets_values[0]: a str itself, a list joined by newlines
ValueText(v) == IF v.kind = "list" THEN JoinLines(v.items) ELSE v.s

\* C3: a text-encode node with an empty title whose text contains "negative"
\* (case-insensitively) within its first 50 characters is never emitted.
C3_EmptyTitleNegativeExcluded ==
    \A c \in WfCalls : \A k \in 1..Len(workflow_data) :
        LET node == workflow_data[k]
        IN  ( /\ is_text_encode(node)
              /\ (~node.has_title \/ node.title = << >>)
              /\ node.widgets_values # << >>
              /\ node.widgets_values[1].kind \in {"str", "list"}
              /\ Contains(s_negative,
                          Prefix(Lower(ValueText(node.widgets_values[1])), 50)) )
            => ~Included(k, c.out)

\* an empty-titled node whose "negative" ends exactly at character 50 was
\* examined by both extractors and left out
C3_Witness ==
    /\ wf_unified.called
    /\ wf_cli.called
    /\ ~wf_cli.out.raised
    /\ Len(workflow_data) = 1
    /\ is_text_encode(workflow_data[1])
    /\ workflow_data[1].title = << >>
    /\ workflow_data[1].widgets_values = <<JStr(t_negative_at_43)>>
    /\ wf_unified.out.positive_prompts = << >>
    /\ wf_cli.out.positive_prompts = << >>

\* C5: the node ids of the records of one output are pairwise distinct.
C5_NodeIdsDistinct ==
    \A c \in WfCalls :
        \A a, b \in 1..Len(c.out.positive_prompts) :
            a # b => c.out.positive_prompts[a].node_id # c.out.positive_prompts[b].node_id

\* two nodes without id, each of which would be emitted on its own, gave
\* one record
C5_Witness ==
    /\ wf_unified.called
    /\ wf_cli.called
    /\ Len(workflow_data) = 2
    /\ workflow_data[1].id = workflow_data[2].id
    /\ workflow_data[1].id = IdNone
    /\ PositiveTitledGoodText(1)
    /\ extract_positive_from_workflow(<<workflow_data[2]>>, {}).emitted = <<1>>
    /\ wf_unified.out.emitted = <<1>>
    /\ wf_cli.out.emitted = <<1>>

(***************************************************************************)
(* Properties of the pipeline and of the batch loop (Spec).                *)
(***************************************************************************)
Range(q) == { q[i] : i \in 1..Len(q) }

\* what the per-file calls made so far have returned or raised
CallEntries == IF frontend = "cli" THEN Range(printed) ELSE Range(results)

\* what the user has been given: main's prints, the UI's current_results
UserReports == IF frontend = "cli" THEN Range(printed) ELSE Range(current_results)

AllEntries == Range(printed) \cup Range(results) \cup Range(current_results)

\* the UI worker has left its loop through its except clause, at file idx
WorkerFailed == pc = "posted_error" \/ error_shown

Sources(prompts) == { prompts[r].source : r \in 1..Len(prompts) }

\* the per-file call raises on this file
ExtractionRaises(fe, f) ==
    \/ ~f.is_png
    \/ LET w == try_workflow(fe, f, {})
       IN  \/ w.raised
           \/ try_prompt(fe, f, w.positive_prompts, w.processed_nodes).raised

\* C4 as stated: no record of any result has the empty string as text.
C4_AsStated ==
    \A e \in AllEntries :
        \A r \in 1..Len(e.positive_prompts) : e.positive_prompts[r].text # << >>

\* the records the workflow key of f gives on its own
WorkflowRecords(fe, f) ==
    IF f.workflow.kind = "object"
    THEN workflow_extractor(fe, f.workflow.data, {}).positive_prompts
    ELSE << >>

\* the records the prompt key of f gives on its own
PromptRecords(fe, f) ==
    IF f.prompt.kind = "object"
    THEN prompt_extractor(fe, f.prompt.data, {}).positive_prompts
    ELSE << >>

\* C6: the prompt extractor is run for a file only when the workflow
\* extractor gave zero records for it: no result holds records of both
\* sources, and a result holding prompt_data records belongs to a file whose
\* workflow gives none.
C6_PromptOnlyAfterEmptyWorkflow ==
    /\ Cardinality(Sources(positive_prompts)) <= 1
    /\ \A e \in AllEntries :
        /\ Cardinality(Sources(e.positive_prompts)) <= 1
        /\ "prompt_data" \in Sources(e.positive_prompts)
             => WorkflowRecords(frontend, file_paths[e.filename]) = << >>

\* a file whose workflow and prompt keys both describe node 1 with the same
\* text has been extracted: one record, from the workflow
C6_Witness ==
    /\ pc = "done"
    /\ \E e \in UserReports :
        /\ file_paths[e.filename] =
             File(TRUE, Decoded(wf_positive_and_negative), Decoded(pd_two_texts))
        /\ PromptRecords(frontend, file_paths[e.filename]) # << >>
        /\ Len(e.positive_prompts) = 1
        /\ e.positive_prompts[1].source = "workflow"
        /\ e.positive_prompts[1].text = t_a_cat

MalformedKey(f) ==
    f.is_png /\ (f.workflow.kind = "malformed" \/ f.prompt.kind = "malformed")

\* the records of f when a malformed key counts as zero records
RecordsIgnoringMalformed(fe, f) ==
    IF WorkflowRecords(fe, f) # << >> THEN WorkflowRecords(fe, f)
    ELSE PromptRecords(fe, f)

\* C7: malformed JSON in the workflow or prompt key never aborts the file: the
\* call returns, with the records of the other key (none when both are
\* malformed).
C7_MalformedJsonIsZeroRecords ==
    /\ \A e \in CallEntries :
        MalformedKey(file_paths[e.filename]) =>
            /\ e.ok
            /\ e.positive_prompts =
                 RecordsIgnoringMalformed(frontend, file_paths[e.filename])
    /\ WorkerFailed => ~MalformedKey(file_paths[idx])

\* a batch with a malformed workflow next to a good prompt graph, and a file
\* with both keys malformed, has been reported: prompt records and no records
C7_Witness ==
    /\ pc = "done"
    /\ ~error_shown
    /\ \E e \in UserReports :
        /\ file_paths[e.filename] = File(TRUE, Malformed, Decoded(pd_two_texts))
        /\ e.ok
        /\ Len(e.positive_prompts) = 1
        /\ e.positive_prompts[1].source = "prompt_data"
    /\ \E e \in UserReports :
        /\ file_paths[e.filename] = File(TRUE, Malformed, Malformed)
        /\ e.ok
        /\ e.positive_prompts = << >>

\* C8 as stated: a file that is not a valid PNG fails only itself; every other
\* file of the batch is processed and its result reported.
C8_AsStated ==
    ( /\ pc = "done"
      /\ \A j \in 1..Len(file_paths) :
            file_paths[j].is_png => ~ExtractionRaises(frontend, file_paths[j]) )
    => \A i \in 1..Len(file_paths) :
          file_paths[i].is_png =>
              \E e \in UserReports : e.filename = i /\ e.ok

NoMetadata(f) ==
    f.is_png /\ f.workflow.kind = "absent" /\ f.prompt.kind = "absent"

\* C9: a valid PNG without workflow and prompt keys gives a result with no
\* prompts and raises nothing, also next to files that give prompts.
C9_NoMetadataGivesEmptyResult ==
    /\ \A e \in AllEntries :
        NoMetadata(file_paths[e.filename]) => (e.ok /\ e.positive_prompts = << >>)
    /\ (pc \in {"workflow", "prompt", "return"} /\ NoMetadata(file_paths[idx]))
          => positive_prompts = << >>
    /\ WorkerFailed => ~NoMetadata(file_paths[idx])
    /\ ( /\ pc = "done"
         /\ \A j \in 1..Len(file_paths) : ~ExtractionRaises(frontend, file_paths[j]) )
       => /\ ~error_shown
          /\ \A i \in 1..Len(file_paths) :
                \E e \in UserReports : e.filename = i /\ e.ok

\* a file giving one prompt followed by a file without metadata: both
\* reported, the second with no prompts, no error
C9_Witness ==
    /\ pc = "done"
    /\ ~error_shown
    /\ Len(file_paths) = 2
    /\ NoMetadata(file_paths[2])
    /\ \E e \in UserReports : e.filename = 1 /\ e.ok /\ Len(e.positive_prompts) = 1
    /\ \E e \in UserReports : e.filename = 2 /\ e.ok /\ e.positive_prompts = << >>

\* C10: two calls on the same file give the same records: nothing, the set
\* of processed nodes included, survives from one call to the next.
C10_SameFileSameRecords ==
    \A e1, e2 \in CallEntries :
        file_paths[e1.filename] = file_paths[e2.filename]
            => (e1.ok = e2.ok /\ e1.positive_prompts = e2.positive_prompts)

\* the same file, which gives prompts, has been extracted twice in a row
C10_Witness ==
    /\ Len(file_paths) >= 2
    /\ file_paths[1] = file_paths[2]
    /\ \E e1, e2 \in CallEntries :
        /\ e1.filename = 1
        /\ e2.filename = 2
        /\ e1.positive_prompts # << >>
        /\ e2.positive_prompts = e1.positive_prompts

(***************************************************************************)
(* Properties of the parameters extractors (SpecParams).                   *)
(***************************************************************************)
\* the text of the parameters chunk, and its lines
ParamText == parameters_file.parameters.text

TextLines == Split(ParamText, "\n")

\* the file is a PNG whose parameters chunk is text that is no JSON
IsTextBlock ==
    /\ parameters_file.is_png
    /\ parameters_file.parameters.present
    /\ parameters_file.parameters.json.kind = "malformed"

\* the first line that reads "positive prompt:" and then something
HasMatchedLine == matched_line(TextLines) # 0

MatchedAt == matched_line(TextLines)

\* the X of  "Positive prompt: X": what follows the 16 characters of the key
PromptX ==
    LET line == Strip(TextLines[MatchedAt])
    IN  Strip(SubSeq(line, Len(s_positive_prompt_colon) + 1, Len(line)))

\* the line names a known parameter and holds a colon
NamesParameter(line) ==
    /\ HasChar(":", line)
    /\ \E param \in known_parameters : Contains(param, Lower(line))

\* the matched line is immediately followed by a known parameter's line
ParameterLineFollows ==
    /\ IsTextBlock
    /\ HasMatchedLine
    /\ MatchedAt < Len(TextLines)
    /\ NamesParameter(TextLines[MatchedAt + 1])

BothCalled == par_strict.called /\ par_simple.called

\* C11 as the claim states it: the strict and the simple extractor both
\* return exactly X on "Positive prompt: X" followed by a parameter line
C11_AsStated ==
    (BothCalled /\ ParameterLineFollows) =>
        /\ par_strict.out.value = JStr(PromptX)
        /\ par_simple.out.value = JStr(PromptX)

\* C11: on "Positive prompt: X" immediately followed by a known parameter's
\* line, the simple extractor returns X stripped; the strict extractor
\* returns None when X is empty and otherwise X stripped with the line
\* boundaries inside X (a carriage return) written as newlines, which is X
\* itself when X holds none
C11_PromptBeforeParameterLine ==
    (BothCalled /\ ParameterLineFollows) =>
        LET X == PromptX
        IN  /\ ~par_strict.out.raised /\ ~par_simple.out.raised
            /\ par_simple.out.value = JStr(X)
            /\ par_strict.out.value =
                   IF X = << >> THEN PyNone ELSE JStr(JoinLines(SplitLines(X)))
            /\ (X # << >> /\ ~HasChar("\r", X)) => par_strict.out.value = JStr(X)

C11_Witness ==
    /\ BothCalled
    /\ ParameterLineFollows
    /\ ParamText = JoinLines(<<l_Positive_prompt_foo_bar, l_Steps_20>>)
    /\ par_strict.out.value = JStr(<<"f","o","o"," ","b","a","r">>)
    /\ par_simple.out.value = JStr(<<"f","o","o"," ","b","a","r">>)

\* the file is a PNG whose parameters chunk is the text of a JSON object
IsJsonObject ==
    /\ parameters_file.is_png
    /\ parameters_file.parameters.present
    /\ parameters_file.parameters.json.kind = "dict"

JsonMembers == parameters_file.parameters.json.members

\* the priority order the specification gives for the recognised keys
ClaimedOrder ==
    << <<"P","o","s","i","t","i","v","e"," ","p","r","o","m","p","t">>, <<"p","o","s","i","t","i","v","e"," ","p","r","o","m","p","t">>, <<"P","o","s","i","t","i","v","e"," ","P","r","o","m","p","t">>,
       <<"p","o","s","i","t","i","v","e","_","p","r","o","m","p","t">>, <<"p","r","o","m","p","t">>, <<"P","r","o","m","p","t">> >>

\* the recognised keys the object holds, by their place in the order
PresentRanks ==
    { i \in 1..Len(ClaimedOrder) :
        \E m \in 1..Len(JsonMembers) : JsonMembers[m].key = ClaimedOrder[i] }

HasRecognisedKey == PresentRanks # {}

\* the first matching key: the present key that comes first in the order
FirstMatchingKey ==
    ClaimedOrder[CHOOSE i \in PresentRanks : \A j \in PresentRanks : i <= j]

\* the value the object holds under that key (the last one written, as
\* json.loads keeps it)
FirstMatchingValue ==
    LET at == { m \in 1..Len(JsonMembers) : JsonMembers[m].key = FirstMatchingKey }
    IN  JsonMembers[CHOOSE m \in at : \A n \in at : n <= m].value

\* the elements of a list stringified and joined with newlines
ListAsText(value) == JoinWith(StrEach(value.items), <<"\n">>)

ListUnderFirstKey ==
    IsJsonObject /\ HasRecognisedKey /\ FirstMatchingValue.kind = "list"

\* C12 as the claim states it: on a JSON object whose first matching key
\* holds a list, both extractors return a string, the elements stringified
\* and joined with newlines
C12_AsStated ==
    (BothCalled /\ ListUnderFirstKey) =>
        /\ par_strict.out.value = JStr(ListAsText(FirstMatchingValue))
        /\ par_simple.out.value = JStr(ListAsText(FirstMatchingValue))

\* the part of C12 the unified UI keeps
C12_StrictJoinsList ==
    (par_strict.called /\ ListUnderFirstKey) =>
        par_strict.out.value = JStr(ListAsText(FirstMatchingValue))

\* the list comes back as it is from extract_positive_prompt
C12_SimpleReturnsList ==
    /\ BothCalled
    /\ JsonMembers = <<Member(k_prompt, v_a_b)>>
    /\ par_strict.out.value = JStr(<<"a", "\n", "b">>)
    /\ par_simple.out.value = v_a_b

\* a decoded JSON value as the text str() makes of it; null is None
TextOf(value) ==
    CASE value.kind = "list" -> JStr(ListAsText(value))
      [] value.kind = "num" -> JStr(StrNat(value.n))
      [] value.kind = "null" -> PyNone
      [] OTHER -> value

\* the object holds several recognised keys
SeveralRecognisedKeys == IsJsonObject /\ Cardinality(PresentRanks) >= 2

\* C13: on a JSON object with several recognised keys both extractors return
\* the value under the key that comes first in the order "Positive prompt",
\* "positive prompt", "Positive Prompt", "positive_prompt", "prompt",
\* "Prompt" (the unified UI as text, the simple extractors as decoded),
\* in whatever order the object's text lists its keys
C13_FirstKeyInPriorityOrder ==
    (BothCalled /\ SeveralRecognisedKeys) =>
        /\ ~par_strict.out.raised /\ ~par_simple.out.raised
        /\ par_strict.out.value = TextOf(FirstMatchingValue)
        /\ par_simple.out.value = FirstMatchingValue

\* the object lists "prompt" before "Positive prompt" and the value of
\* "Positive prompt" is returned
C13_Witness ==
    /\ BothCalled
    /\ JsonMembers = <<Member(k_prompt, v_foo_bar), Member(k_Positive_prompt, v_a_b)>>
    /\ par_strict.out.value = JStr(<<"a", "\n", "b">>)
    /\ par_simple.out.value = v_a_b

\* the JSON path yields no value: the text is no JSON, or JSON that is no
\* object, or an object with none of the recognised keys
NoJsonValue ==
    /\ parameters_file.is_png
    /\ parameters_file.parameters.present
    /\ \/ parameters_file.parameters.json.kind \in {"malformed", "other"}
       \/ (IsJsonObject /\ ~HasRecognisedKey)

\* C14: when the JSON path yields no value, neither extractor raises and
\* each returns what its line-oriented text parsing returns for the same
\* string
C14_FallsThroughToTextParsing ==
    (BothCalled /\ NoJsonValue) =>
        /\ ~par_strict.out.raised
        /\ ~par_simple.out.raised
        /\ par_strict.out.value = strict_text_parse(ParamText).value
        /\ par_simple.out.value = simple_text_parse(ParamText).value

\* json.loads has failed and the prompt of the text is returned
C14_Witness ==
    /\ BothCalled
    /\ NoJsonValue
    /\ parameters_file.parameters.json.kind = "malformed"
    /\ ParamText = JoinLines(<<l_Positive_prompt_foo_bar, l_masterpiece>>)
    /\ par_strict.out.value = JStr(<<"f","o","o"," ","b","a","r">> \o <<"\n">> \o <<"m","a","s","t","e","r","p","i","e","c","e">>)
    /\ par_simple.out.value = JStr(<<"f","o","o"," ","b","a","r"," ","m","a","s","t","e","r","p","i","e","c","e">>)

\* the empty lines after the matched line
EmptyLinesAfterMatch ==
    { e \in (MatchedAt + 1)..Len(TextLines) : TextLines[e] = << >> }

EmptyLineFollows == IsTextBlock /\ HasMatchedLine /\ EmptyLinesAfterMatch # {}

FirstEmptyLine ==
    CHOOSE e \in EmptyLinesAfterMatch : \A f \in EmptyLinesAfterMatch : e <= f

\* the text with the first empty line after the matched line, and all that
\* follows it, cut off
TextBeforeEmptyLine == JoinLines(SubSeq(TextLines, 1, FirstEmptyLine - 1))

\* C15 as the claim states it: under both policies no line at or after the
\* first empty line that follows the matched line contributes, so the text
\* cut before that line gives the same prompt
C15_AsStated ==
    (BothCalled /\ EmptyLineFollows) =>
        /\ par_strict.out.value = strict_text_parse(TextBeforeEmptyLine).value
        /\ par_simple.out.value = simple_text_parse(TextBeforeEmptyLine).value

\* the part of C15 the simple extractors keep
C15_SimpleStopsAtEmptyLine ==
    (par_simple.called /\ EmptyLineFollows) =>
        par_simple.out.value = simple_text_parse(TextBeforeEmptyLine).value

\* the strict extractor reads on past the empty line
C15_StrictReadsPastEmptyLine ==
    /\ BothCalled
    /\ ParamText = JoinLines(<<l_Positive_prompt_foo_bar, l_empty, l_masterpiece>>)
    /\ par_simple.out.value = JStr(<<"f","o","o"," ","b","a","r">>)
    /\ par_strict.out.value = JStr(<<"f","o","o"," ","b","a","r">> \o <<"\n", "\n">> \o <<"m","a","s","t","e","r","p","i","e","c","e">>)

\* the positions after the matched line where the simple policy ends the
\* prompt: a line with a colon (or an empty line, C15)
SimpleEnds ==
    { j \in (MatchedAt + 1)..Len(TextLines) :
        HasChar(":", TextLines[j]) \/ Strip(TextLines[j]) = << >> }

\* the positions where the strict policy ends it: a line with a colon and
\* the name of a known parameter
StrictEnds ==
    { j \in (MatchedAt + 1)..Len(TextLines) : NamesParameter(TextLines[j]) }

\* the first position of a set of ends, or the position after the last line
FirstEnd(ends) ==
    IF ends = {} THEN Len(TextLines) + 1
    ELSE CHOOSE j \in ends : \A k \in ends : j <= k

\* the lines between the matched line and the end
Continuation(end) == SubSeq(TextLines, MatchedAt + 1, end - 1)

\* a text block with a matched line whose X is not empty, and with no
\* carriage return inside a line (C11 tells what these give)
PlainPromptLine ==
    /\ IsTextBlock
    /\ HasMatchedLine
    /\ PromptX # << >>
    /\ ~HasChar("\r", ParamText)

\* every newline read as a space
NewlinesAsSpaces(s) == [i \in 1..Len(s) |-> IF s[i] = "\n" THEN " " ELSE s[i]]

\* C16 as the claim states it: the policies differ only in what ends the
\* prompt and in the joiner, so where both end the prompt at the same line
\* the strict result, its newlines read as spaces, is the simple result
C16_AsStated ==
    (BothCalled /\ PlainPromptLine /\ FirstEnd(SimpleEnds) = FirstEnd(StrictEnds)) =>
        NewlinesAsSpaces(par_strict.out.value.s) = par_simple.out.value.s

\* C16: the simple policy ends the prompt at the first following line that
\* holds a colon (or is empty), strips the lines before it and joins them
\* to X with single spaces; the strict policy ends it only at a line that
\* holds a colon and a known parameter name, so a colon-bearing line that
\* names none is appended, strips the lines on the right only, joins them
\* to X with newlines and strips the whole on the right
C16_TwoPolicies ==
    (BothCalled /\ PlainPromptLine) =>
        LET simple_lines == Continuation(FirstEnd(SimpleEnds))
            strict_lines == Continuation(FirstEnd(StrictEnds))
        IN  /\ par_simple.out.value =
                   JStr(JoinWith(<<PromptX>> \o
                            [j \in 1..Len(simple_lines) |-> Strip(simple_lines[j])],
                        <<" ">>))
            /\ par_strict.out.value =
                   JStr(RStrip(JoinWith(<<PromptX>> \o
                            [j \in 1..Len(strict_lines) |-> RStrip(strict_lines[j])],
                        <<"\n">>)))

\* "note: x" ends the prompt of the simple policy and is appended by the
\* strict one, which ends at "Steps: 20"
C16_Witness ==
    /\ BothCalled
    /\ ParamText = JoinLines(<<l_Positive_prompt_foo_bar, l_note_x, l_Steps_20>>)
    /\ par_simple.out.value = JStr(<<"f","o","o"," ","b","a","r">>)
    /\ par_strict.out.value = JStr(<<"f","o","o"," ","b","a","r">> \o <<"\n">> \o <<"n","o","t","e",":"," ","x">>)

\* the first line of a returned text
FirstLine(s) == Split(s, "\n")[1]

\* C17: whenever the text parsing of the unified UI returns a value, the
\* first line of that value is not blank, and when the text has no
\* "positive prompt:" line nothing is returned (None)
C17_FirstLineNotBlank ==
    (par_strict.called /\ IsTextBlock) =>
        /\ par_strict.out.value.kind = "str"
               => Strip(FirstLine(par_strict.out.value.s)) # << >>
        /\ ~HasMatchedLine => par_strict.out.value = PyNone

\* "positive prompt:" with nothing after the colon, an empty line and then
\* "  b ": the empty line that would lead the result is dropped
C17_Witness ==
    /\ par_strict.called
    /\ ParamText = JoinLines(<<l_positive_prompt_nothing, l_empty, l_indented_b>>)
    /\ par_strict.out.value = JStr(<<" "," ","b">>)

\* what ParametersBlockExtractor returns for the file (None when the file
\* has no parameters key)
ExtractorValue == extract_positive_from_parameters_strict(parameters_file).value

ModeRecords == par_mode.out.positive_prompts

\* the same file with its workflow and prompt chunks taken out
WithoutGraphs == [parameters_file EXCEPT !.workflow = Absent, !.prompt = Absent]

ModeCalledOnPng == par_mode.called /\ parameters_file.is_png

\* C18 as the claim states it: one record whenever the extractor returns a
\* value, none when it returns None
C18_AsStated ==
    ModeCalledOnPng =>
        Len(ModeRecords) = (IF ExtractorValue # PyNone THEN 1 ELSE 0)

\* the file holds a workflow or a prompt chunk
HasGraphChunk ==
    parameters_file.workflow.kind # "absent" \/ parameters_file.prompt.kind # "absent"

\* C18: in parameters mode the result of a PNG holds at most one record:
\* exactly one, with node id "parameters", title "Parameters" and the
\* extractor's value as text, when the extractor returns a string that is not
\* empty; none when it returns the empty string or None (as it does when
\* the parameters key is missing); and the workflow and prompt chunks
\* change nothing
C18_ParametersModeRecord ==
    ModeCalledOnPng =>
        LET value == ExtractorValue
        IN  /\ ~par_mode.out.raised
            /\ par_mode.out.extraction_method = "parameters"
            /\ Len(ModeRecords) <= 1
            /\ (value.kind = "str" /\ value.s # << >>) =>
                   /\ Len(ModeRecords) = 1
                   /\ ModeRecords[1].text = value.s
                   /\ ModeRecords[1].node_id = IdStr(<<"p","a","r","a","m","e","t","e","r","s">>)
                   /\ ModeRecords[1].title = <<"P","a","r","a","m","e","t","e","r","s">>
                   /\ ModeRecords[1].source = "parameters"
            /\ (value = PyNone \/ value = JStr(<< >>)) => ModeRecords = << >>
            /\ ~parameters_file.parameters.present => ModeRecords = << >>
            /\ HasGraphChunk =>
                   par_mode.out = extract_positive_prompts_parameters(WithoutGraphs)

\* a file with a workflow graph, a prompt graph and "Positive prompt: foo
\* bar": one record, from the parameters
C18_Witness ==
    /\ ModeCalledOnPng
    /\ parameters_file.workflow.kind = "object"
    /\ parameters_file.prompt.kind = "object"
    /\ parameters_file.parameters = p_foo_bar_steps
    /\ Len(ModeRecords) = 1
    /\ ModeRecords[1].text = <<"f","o","o"," ","b","a","r">>
    /\ ModeRecords[1].source = "parameters"

(***************************************************************************)
(* Properties of the window (SpecUI).                                      *)
(***************************************************************************)
\* the result state the window owns: the stored results and the prompts shown
ResultState == <<current_results, prompt_text_widget>>

ExtractorModes == {"ComfyUI", "Parameters"}

\* the callback carries one result for every file of its run, each the result
\* of that file
CompleteResults(cb) ==
    /\ Len(cb.results) = Len(cb.file_paths)
    /\ \A i \in 1..Len(cb.file_paths) :
          /\ ~cb.results[i].raised
          /\ \E mode \in ExtractorModes :
                cb.results[i] = run_extractor(frontend, mode, cb.file_paths[i])

RunInFlight == \E run \in DOMAIN workers : workers[run].st = "running"

\* this step is the window's thread taking the results a thread posted when it
\* ended
HandOff ==
    /\ after_queue # << >>
    /\ Head(after_queue).handler = "update_results"
    /\ workers[Head(after_queue).run].st = "ended"
    /\ CompleteResults(Head(after_queue))
    /\ current_results' = Head(after_queue).results
    /\ prompt_text_widget' = prompt_texts(Head(after_queue).results)
    /\ after_queue' = Tail(after_queue)

\* this step empties the result state
Cleared ==
    /\ current_results' = << >>
    /\ prompt_text_widget' = << >>

\* a thread posts once, as it ends, and what it posts for update_results is
\* complete
PostedOnceAndComplete ==
    /\ \A i, j \in 1..Len(after_queue) :
          after_queue[i].run = after_queue[j].run => i = j
    /\ \A i \in 1..Len(after_queue) :
          /\ workers[after_queue[i].run].st = "ended"
          /\ after_queue[i].handler = "update_results"
                => CompleteResults(after_queue[i])

\* C19 as stated: while a run is in flight, the stored results and the prompts
\* shown change only in the hand-off of a run's complete results
C19_AsStated ==
    [][(RunInFlight /\ ResultState' # ResultState) => HandOff]_vars

\* C19: the stored results and the prompts shown change only in the hand-off
\* of a run's complete results, posted once by a thread that has gone through
\* all its files, or when Clear empties them; nothing posted is partial
C19_HandOffOrClear ==
    /\ []PostedOnceAndComplete
    /\ [][ResultState' # ResultState => (HandOff \/ Cleared)]_vars

\* the window shows the results of a run of two files while the thread of
\* another run holds the result of the first of its two files
C19_Witness ==
    /\ Len(current_results) = 2
    /\ prompt_text_widget # << >>
    /\ \E run \in DOMAIN workers :
          /\ workers[run].st = "running"
          /\ Len(workers[run].results) = 1
          /\ Len(workers[run].file_paths) = 2

(***************************************************************************)
(* Normalisation and classification in the workflow extractor (SpecWF).    *)
(***************************************************************************)
\* the text a value stands for: a list joined by newlines, a number written out
NormalisedValue(v) ==
    IF v.kind = "list" THEN JStr(JoinLines(v.items))
    ELSE IF v.kind = "num" THEN JStr(StrNat(v.n))
    ELSE v

\* the node with its first widget value replaced by the text it stands for
NormalisedNode(node) ==
    [node EXCEPT !.widgets_values = <<NormalisedValue(node.widgets_values[1])>>
                                    \o Tail(node.widgets_values)]

\* a workflow of one text-encode node whose first widget value is a list or a
\* number
OneListOrNumberNode ==
    /\ Len(workflow_data) = 1
    /\ is_text_encode(workflow_data[1])
    /\ workflow_data[1].widgets_values # << >>
    /\ workflow_data[1].widgets_values[1].kind \in {"list", "num"}

\* C20 as stated: the unified workflow extractor emits for a node whose value
\* is a list or a number exactly the records it emits for the same node
\* carrying the normalised string
C20_AsStated ==
    (wf_unified.called /\ OneListOrNumberNode)
        => wf_unified.out.positive_prompts
             = extract_positive_from_workflow(
                   <<NormalisedNode(workflow_data[1])>>, {}).positive_prompts

\* an empty-titled node with ["a cat"] gives no record, though the same node
\* with "a cat" gives one
C20_EmptyTitledListDropped ==
    /\ wf_unified.called
    /\ OneListOrNumberNode
    /\ title_lower(workflow_data[1]) = << >>
    /\ workflow_data[1].widgets_values[1] = JList(<<t_a_cat>>)
    /\ wf_unified.out.positive_prompts = << >>
    /\ extract_positive_from_workflow(
           <<NormalisedNode(workflow_data[1])>>, {}).positive_prompts # << >>

\* a "Positive"-titled node with ["negative x"] gives a record with the text
\* "negative x", though the same node with "negative x" gives none
C20_PositiveTitledNegativeListEmitted ==
    /\ wf_unified.called
    /\ OneListOrNumberNode
    /\ workflow_data[1].title = s_Positive
    /\ workflow_data[1].widgets_values[1] = JList(<<t_negative_x>>)
    /\ Len(wf_unified.out.positive_prompts) = 1
    /\ wf_unified.out.positive_prompts[1].text = t_negative_x
    /\ extract_positive_from_workflow(
           <<NormalisedNode(workflow_data[1])>>, {}).positive_prompts = << >>

(***************************************************************************)
(* Titles without "pos" (SpecWF).                                          *)
(***************************************************************************)
\* the node's title in lower case, nothing when it has none
LowerCasedTitle(node) == IF node.has_title THEN Lower(node.title) ELSE << >>

\* the node with an empty title
WithEmptyTitle(node) == [node EXCEPT !.has_title = TRUE, !.title = << >>]

\* what the two extractors give for a workflow of this one node
AloneUnified(node) == extract_positive_from_workflow(<<node>>, {})

AloneCli(node) == cli_extract_positive_from_workflow(<<node>>, {})

\* the extractor emits, or raises, for the node alone as for the node alone
\* with an empty title
ClassifiedAsEmptyTitled(node) ==
    /\ (AloneUnified(node).emitted # << >>)
          = (AloneUnified(WithEmptyTitle(node)).emitted # << >>)
    /\ (AloneCli(node).emitted # << >>)
          = (AloneCli(WithEmptyTitle(node)).emitted # << >>)
    /\ AloneCli(node).raised = AloneCli(WithEmptyTitle(node)).raised

\* C21: a node whose lower-cased title has no "pos" in it is emitted only if
\* that title is empty or "untitled", and a node titled "Untitled" (in any
\* case) is classified as the same node with an empty title
C21_TitlesWithoutPos ==
    \A c \in WfCalls : \A k \in 1..Len(workflow_data) :
        LET node == workflow_data[k]
        IN  /\ (Included(k, c.out) /\ ~Contains(s_pos, LowerCasedTitle(node)))
                  => LowerCasedTitle(node) \in {<< >>, s_untitled}
            /\ LowerCasedTitle(node) = s_untitled
                  => ClassifiedAsEmptyTitled(node)

\* both extractors have emitted a node titled "Untitled"
C21_Witness ==
    /\ wf_unified.called
    /\ wf_cli.called
    /\ \E k \in 1..Len(workflow_data) :
          /\ workflow_data[k].has_title
          /\ workflow_data[k].title = s_Untitled
          /\ Included(k, wf_unified.out)
          /\ Included(k, wf_cli.out)

(***************************************************************************)
(* Which nodes are text-encode nodes (SpecWF).                             *)
(***************************************************************************)
TypeIsCLIPTextEncode(node) == node.type = s_CLIPTextEncode

TypeContainsCliptext(node) == Contains(s_cliptext, Lower(node.type))

NameForSRIsCLIPTextEncode(node) == node.snr = s_CLIPTextEncode

TextEncodeNode(node) ==
    \/ TypeIsCLIPTextEncode(node)
    \/ TypeContainsCliptext(node)
    \/ NameForSRIsCLIPTextEncode(node)

\* a node titled "Positive" with the text "a cat"
PositiveCat(node) ==
    /\ node.has_title
    /\ node.title = s_Positive
    /\ node.widgets_values = <<JStr(t_a_cat)>>

\* C22: an emitted node is a text-encode node with a non-empty
\* widgets_values, and a node titled "Positive" with the text "a cat" that
\* meets any of the three criteria is emitted when it is the only node
C22_TextEncodeNodesOnly ==
    \A c \in WfCalls :
        /\ \A k \in 1..Len(workflow_data) :
              Included(k, c.out)
                 => /\ TextEncodeNode(workflow_data[k])
                    /\ workflow_data[k].widgets_values # << >>
        /\ (Len(workflow_data) = 1 /\ PositiveCat(workflow_data[1])
               /\ TextEncodeNode(workflow_data[1]))
              => Included(1, c.out)

\* both extractors were run on a node titled "Positive" whose type is
\* "KSampler": with properties["Node name for S&R"] = "CLIPTextEncode" they
\* emitted it, without it they did not
C22_Witness ==
    /\ wf_unified.called
    /\ wf_cli.called
    /\ Len(workflow_data) = 1
    /\ PositiveCat(workflow_data[1])
    /\ workflow_data[1].type = s_KSampler
    /\ NameForSRIsCLIPTextEncode(workflow_data[1])
    /\ Included(1, wf_unified.out)
    /\ Included(1, wf_cli.out)
    /\ AloneUnified([workflow_data[1] EXCEPT !.snr = << >>]).emitted = << >>
    /\ AloneCli([workflow_data[1] EXCEPT !.snr = << >>]).emitted = << >>

(***************************************************************************)
(* Properties of the prompt-data extractors (SpecPD).                      *)
(***************************************************************************)
PdCalls == { c \in {pd_unified, pd_cli} : c.called }

\* inputs["text"] if that key is present, otherwise inputs["prompt"]
TextContent(item) ==
    IF item.has_text THEN item.text
    ELSE IF item.has_prompt THEN item.prompt
    ELSE JNull

\* the text a value stands for (section 4.1 step 4), nothing for null
ContentText(v) ==
    IF v.kind = "null" THEN << >> ELSE NormalisedValue(v).s

\* the pair is one the claim says is emitted
QualifyingPair(item) ==
    /\ item.is_dict
    /\ item.class_type = s_CLIPTextEncode
    /\ Strip(ContentText(TextContent(item))) # << >>
    /\ ~Contains(s_negative,
                 Prefix(Lower(ContentText(TextContent(item))), NegativeWindow))

\* the record of the pair at position k, if it has one
RecordsOf(k, out) ==
    { out.positive_prompts[r] : r \in { q \in 1..Len(out.emitted) : out.emitted[q] = k } }

\* the records of the call are those of the qualifying pairs, each with the
\* pair's key as node id, "Node " + key as title and the pair's text
EmitsQualifyingPairs(out) ==
    \A k \in 1..Len(prompt_data) :
        /\ Included(k, out) <=> QualifyingPair(prompt_data[k])
        /\ \A rec \in RecordsOf(k, out) :
              /\ rec.node_id = IdStr(prompt_data[k].key)
              /\ rec.title = s_Node \o prompt_data[k].key
              /\ rec.text = ContentText(TextContent(prompt_data[k]))

\* every text content of the mapping is a string, or there is none
TextContentsAreStrings ==
    \A k \in 1..Len(prompt_data) :
        (prompt_data[k].is_dict /\ prompt_data[k].class_type = s_CLIPTextEncode)
            => (TextContent(prompt_data[k]).kind = "str"
                \/ (~prompt_data[k].has_text /\ ~prompt_data[k].has_prompt))

\* C23 as stated: both prompt-data extractors emit a pair exactly when it is
\* a CLIPTextEncode object whose text content is not blank and has no
\* "negative" in its first 50 characters, with node id = key and title
\* "Node " + key
C23_AsStated == \A c \in PdCalls : EmitsQualifyingPairs(c.out)

\* the unified extractor does so on every mapping
C23_UnifiedEmitsQualifyingPairs ==
    pd_unified.called => EmitsQualifyingPairs(pd_unified.out)

\* the command-line extractor does so on the mappings whose text contents are
\* strings
C23_CliEmitsQualifyingStrings ==
    (pd_cli.called /\ TextContentsAreStrings) => EmitsQualifyingPairs(pd_cli.out)

\* the command-line extractor was given the text content ["a cat"], or 7, and
\* raised
C23_CliRaisesOnListOrNumber ==
    /\ pd_cli.called
    /\ pd_cli.out.raised
    /\ \E k \in 1..Len(prompt_data) :
          /\ QualifyingPair(prompt_data[k])
          /\ TextContent(prompt_data[k]).kind \in {"list", "num"}

(***************************************************************************)
(* Order of the records (SpecGraphs).                                      *)
(***************************************************************************)
\* the positions, in the input, of the elements the records were made from
\* go up from one record to the next
InInputOrder(out) ==
    /\ Len(out.emitted) = Len(out.positive_prompts)
    /\ \A r, s \in 1..Len(out.emitted) : r < s => out.emitted[r] < out.emitted[s]

\* each record of a workflow call carries the id and type of its node
RecordsOfTheirNodes(out) ==
    \A r \in 1..Len(out.emitted) :
        /\ out.emitted[r] \in 1..Len(workflow_data)
        /\ out.positive_prompts[r].node_id = workflow_data[out.emitted[r]].id
        /\ out.positive_prompts[r].node_type = workflow_data[out.emitted[r]].type
        /\ out.positive_prompts[r].text
             = ContentText(workflow_data[out.emitted[r]].widgets_values[1])

\* each record of a prompt-data call carries the key and text of its pair
RecordsOfTheirPairs(out) ==
    \A r \in 1..Len(out.emitted) :
        /\ out.emitted[r] \in 1..Len(prompt_data)
        /\ out.positive_prompts[r].node_id = IdStr(prompt_data[out.emitted[r]].key)
        /\ out.positive_prompts[r].text
             = ContentText(TextContent(prompt_data[out.emitted[r]]))

\* C24: the records of a workflow call are made from nodes at ascending
\* positions of the nodes sequence, and those of a prompt-data call from pairs
\* at ascending positions of the mapping
C24_RecordsInInputOrder ==
    /\ \A c \in WfCalls : InInputOrder(c.out) /\ RecordsOfTheirNodes(c.out)
    /\ \A c \in PdCalls : InInputOrder(c.out) /\ RecordsOfTheirPairs(c.out)

\* the unified prompt-data extractor has emitted the pair under "2" before the
\* pair under "1", as they stand in the mapping
C24_Witness ==
    /\ pd_unified.called
    /\ Len(pd_unified.out.positive_prompts) = 2
    /\ pd_unified.out.positive_prompts[1].node_id = IdStr(k_2)
    /\ pd_unified.out.positive_prompts[2].node_id = IdStr(k_1)

(***************************************************************************)
(* Runs in flight (SpecUI).                                                *)
(***************************************************************************)
\* the runs started and not yet delivered: their thread is running, or what it
\* posted waits for the window's thread
RunsInFlight ==
    { run \in DOMAIN workers : workers[run].st = "running" }
    \cup { after_queue[i].run : i \in 1..Len(after_queue) }

\* C25 as stated: at most one run is in flight at any time
C25_AsStated == Cardinality(RunsInFlight) <= 1

\* two threads are running at once, the browse buttons being disabled
C25_TwoThreadsRunning ==
    /\ browse_btn = "disabled"
    /\ Cardinality({ run \in DOMAIN workers : workers[run].st = "running" }) = 2

(***************************************************************************)
(* The mode in the summary (SpecUI, unified UI).                           *)
(***************************************************************************)
\* the 'extraction_method' the extractor of a mode writes into its results
MethodOfMode(mode) == IF mode = "ComfyUI" THEN "comfyui" ELSE "parameters"

\* a summary is displayed
SummaryShown == summary_text # NoSummary

\* C26 as stated: in the unified UI the mode the displayed summary names is
\* the mode whose extractor made the displayed results
C26_AsStated ==
    (frontend = "ui" /\ SummaryShown)
        => \A i \in 1..Len(current_results) :
              current_results[i].extraction_method = MethodOfMode(summary_text.mode)

\* the summary says "Parameters" over results of the workflow/prompt
\* extractor, and no second run was ever started
C26_SummaryNamesOtherMode ==
    /\ frontend = "ui"
    /\ SummaryShown
    /\ summary_text.mode = "Parameters"
    /\ current_results # << >>
    /\ \A i \in 1..Len(current_results) :
          current_results[i].extraction_method = "comfyui"
    /\ Len(workers) = 1

(***************************************************************************)
(* The copy and save buttons (SpecUI).                                     *)
(***************************************************************************)
\* C27 as stated: whenever the copy and save buttons are enabled, the stored
\* list of prompt texts is non-empty
C27_AsStated == copy_btn = "normal" => all_prompt_texts # << >>

\* the buttons are enabled over an empty list: the results of a run without
\* prompts were delivered after those of a run with prompts
C27_EnabledOverNothing ==
    /\ copy_btn = "normal"
    /\ all_prompt_texts = << >>
    /\ current_results # << >>
    /\ prompt_texts(current_results) = << >>

(***************************************************************************)
(* Every run is delivered (SpecUILive).                                    *)
(***************************************************************************)
Started(run) == run \in DOMAIN workers

\* the run's thread has not ended
Running(run) == Started(run) /\ workers[run].st = "running"

\* what the run posted waits for the window's thread
Posted(run) == \E i \in 1..Len(after_queue) : after_queue[i].run = run

\* the run's one callback has run on the window's thread
Delivered(run) ==
    /\ Started(run)
    /\ workers[run].st = "ended"
    /\ ~Posted(run)

\* this step is the window's thread running a posted callback
DeliveryStep ==
    /\ after_queue # << >>
    /\ after_queue' = Tail(after_queue)

\* a run has at most one callback posted, and none before its thread ends
OneCallbackPerRun ==
    /\ \A i, j \in 1..Len(after_queue) :
          after_queue[i].run = after_queue[j].run => i = j
    /\ \A i \in 1..Len(after_queue) :
          /\ Started(after_queue[i].run)
          /\ workers[after_queue[i].run].st = "ended"

\* C28: again and again every run started so far has been delivered, and a
\* delivered run stays delivered, so every started run is delivered; a thread
\* ends by posting its callback, a run has one callback (update_results or
\* show_error) and none after that one has run; and the step that runs a
\* callback stops the progress bar and enables the browse buttons
C28_EveryRunDeliveredOnce ==
    /\ []<>(\A run \in DOMAIN workers : Delivered(run))
    /\ []OneCallbackPerRun
    /\ [][\A run \in DOMAIN workers :
            (Running(run) /\ ~Running(run)') => Posted(run)']_vars
    /\ [][\A run \in DOMAIN workers : Delivered(run) => Delivered(run)']_vars
    /\ [][DeliveryStep => (progress' = "stopped" /\ browse_btn' = "normal")]_vars

\* two runs were started; one was delivered by update_results and the other
\* by show_error, and the progress bar is stopped and the browse buttons are
\* enabled
C28_Witness ==
    /\ Len(workers) = 2
    /\ Delivered(1)
    /\ Delivered(2)
    /\ error_shown
    /\ current_results # << >>
    /\ progress = "stopped"
    /\ browse_btn = "normal"
(***************************************************************************)
(* C29: the shape of the metadata never fails the file.                    *)
(***************************************************************************)
\* the files of the batch whose call was left by an exception: main printed
\* the error for them, or the worker posted show_error at them
FailedFiles ==
    { file_paths[printed[i].filename] :
        i \in { j \in 1..Len(printed) : ~printed[j].ok } }
    \cup (IF pc = "posted_error" THEN { file_paths[idx] } ELSE {})

\* the workflow and prompt chunks that are there hold valid JSON
ValidJsonMetadata(file) ==
    /\ file.workflow.kind # "malformed"
    /\ file.prompt.kind # "malformed"

\* C29 as stated: no valid PNG whose workflow and prompt values are valid JSON
\* fails, whatever the shape of those values
C29_AsStated ==
    \A file \in FailedFiles : ~(file.is_png /\ ValidJsonMetadata(file))

\* the command-line extractor fails a valid PNG whose widgets_values[0] is a
\* list
C29_CliFailsOnListWidget ==
    \A file \in FailedFiles :
        ~(frontend = "cli" /\ file = File(TRUE, Decoded(wf_empty_list), Absent))
(***************************************************************************)
(* C30: the command-line and the unified UI workflow extractors agree on   *)
(* workflows whose text-encode nodes carry strings.                        *)
(***************************************************************************)
\* both extractors have been called on workflow_data
BothWorkflowExtractorsCalled == wf_unified.called /\ wf_cli.called

\* C30: on a workflow whose text-encode nodes carry a string in
\* widgets_values[0], the command-line extractor raises nothing and returns
\* the records the unified UI extractor returns (text, node_id, node_type,
\* title and source), in the same order
C30_SameRecords ==
    (BothWorkflowExtractorsCalled /\ TextEncodeValuesAreStrings) =>
        /\ ~wf_cli.out.raised
        /\ ~wf_unified.out.raised
        /\ wf_cli.out.positive_prompts = wf_unified.out.positive_prompts

\* both were called on a workflow of strings with a node that is left out,
\* and returned the same record or records
C30_Witness ==
    /\ BothWorkflowExtractorsCalled
    /\ TextEncodeValuesAreStrings
    /\ wf_cli.out.positive_prompts # << >>
    /\ Len(wf_cli.out.positive_prompts) < Len(workflow_data)
    /\ wf_cli.out.positive_prompts = wf_unified.out.positive_prompts

====
